---- MODULE Spec2Model ----
(***************************************************************************)
(* Model of cli-project-gen: the blueprint store (blueprintManager.ts and  *)
(* the blueprint commands of index.ts) and the project generator           *)
(* (projectGenerator.ts, its copy in errorHandler.ts, and the inline       *)
(* generator that uses TEMPLATE_DIRS).                                     *)
(*                                                                         *)
(* Conventions.  A path is a sequence of segments ("src/app" is            *)
(* <<"src","app">>).  A file text is a sequence of lines, a line a         *)
(* sequence of tokens (a literal piece or an interpolated value).  The     *)
(* text of the blueprint document is [valid, value]: JSON.parse throws on  *)
(* a text that is not valid, and yields value otherwise.                   *)
(***************************************************************************)
EXTENDS Integers, Sequences, FiniteSets, TLC

VARIABLES store, last, fs, run, context, procs

vars == <<store, last, fs, run, context, procs>>

\* ------------------------------------------------------------------ bounds
\* Longest blueprint sequence the store is allowed to grow to.
MaxStore == 3
\* Longest record sequence of an import file.
MaxImport == 2

\* ----------------------------------------------------------- config model
Types == {"web", "mobile", "backend"}
StateManagements == {"redux", "context", "none"}
ApiTypes == {"rest", "graphql"}
Databases == {"mongodb", "postgres", "mysql"}

\* A blueprint's config: ProjectConfig minus name.
BlueprintConfigWeb ==
  [type |-> "web",
   features |-> [authentication |-> TRUE, userProfiles |-> FALSE,
                 userSettings |-> FALSE, responsiveLayout |-> TRUE,
                 crudSetup |-> FALSE],
   stateManagement |-> "redux", themeToggle |-> TRUE, apiType |-> "rest",
   backend |-> [database |-> "mongodb", roleBasedAuth |-> FALSE,
                jwtSetup |-> FALSE, apiVersioning |-> FALSE]]

BlueprintConfigBackend ==
  [type |-> "backend",
   features |-> [authentication |-> TRUE, userProfiles |-> FALSE,
                 userSettings |-> FALSE, responsiveLayout |-> FALSE,
                 crudSetup |-> TRUE],
   stateManagement |-> "none", themeToggle |-> FALSE, apiType |-> "rest",
   backend |-> [database |-> "postgres", roleBasedAuth |-> TRUE,
                jwtSetup |-> TRUE, apiVersioning |-> TRUE]]

BlueprintConfigs == {BlueprintConfigWeb, BlueprintConfigBackend}

\* The value of a record's config property when the property is missing.
NoConfig ==
  [type |-> "",
   features |-> [authentication |-> FALSE, userProfiles |-> FALSE,
                 userSettings |-> FALSE, responsiveLayout |-> FALSE,
                 crudSetup |-> FALSE],
   stateManagement |-> "", themeToggle |-> FALSE, apiType |-> "",
   backend |-> [database |-> "", roleBasedAuth |-> FALSE,
                jwtSetup |-> FALSE, apiVersioning |-> FALSE]]

\* ------------------------------------------------------- blueprint records
BlueprintNames == {"alpha", "beta"}
CreatedAt == "2024-01-01T00:00:00.000Z"

\* An element of a JSON array: a record (a missing or empty string property
\* is "", a missing config is NoConfig), null, or a scalar.
Blueprint(name, config) ==
  [kind |-> "record", name |-> name, description |-> "",
   config |-> config, createdAt |-> CreatedAt]

NullItem ==
  [kind |-> "null", name |-> "", description |-> "",
   config |-> NoConfig, createdAt |-> ""]

ScalarItem == [NullItem EXCEPT !.kind = "scalar"]

\* The blueprints the commands are given: two of one name, one of another.
Blueprints ==
  {Blueprint("alpha", BlueprintConfigWeb),
   Blueprint("alpha", BlueprintConfigBackend),
   Blueprint("beta", BlueprintConfigWeb)}

\* Records an import file can hold that importBlueprints must not accept.
InvalidRecords ==
  {NullItem, ScalarItem,
   [Blueprint("alpha", BlueprintConfigWeb) EXCEPT !.name = ""],
   [Blueprint("alpha", BlueprintConfigWeb) EXCEPT !.config = NoConfig],
   [Blueprint("alpha", BlueprintConfigWeb) EXCEPT !.createdAt = ""]}

\* ------------------------------------------------------------ JSON values
Array(items) == [kind |-> "array", items |-> items]
EmptyArray == Array(<<>>)
ObjectValue == [kind |-> "object", items |-> <<>>]
NullValue == [kind |-> "null", items |-> <<>>]

GarbageText == [valid |-> FALSE, value |-> NullValue]

JSONstringify(value) == [valid |-> TRUE, value |-> value]

JSONparse(text) == [threw |-> ~text.valid, value |-> text.value]

\* bp.name of an array element: a TypeError on null, undefined on a scalar.
NameThrows(item) == item.kind = "null"

\* ------------------------------------------------------- blueprint store
\* The store is BLUEPRINT_DIR and BLUEPRINT_FILE: whether each exists, the
\* file's text (GarbageText while the file does not exist), and what the
\* operating system permits there: writable (the directory and the file can
\* be created and written) and readable (the file can be read).
StoreState(dirExists, fileExists, text) ==
  [dirExists |-> dirExists, fileExists |-> fileExists, text |-> text,
   writable |-> TRUE, readable |-> TRUE]

\* fs.writeFileSync(BLUEPRINT_FILE, text) throws when writing is not
\* permitted, and then changes nothing.
writeThrows(st) == ~st.writable

writeBlueprintFile(st, text) ==
  IF writeThrows(st) THEN st
  ELSE [st EXCEPT !.fileExists = TRUE, !.text = text]

\* ensureBlueprintDir has no try: its fs.mkdirSync or fs.writeFileSync throws
\* when something is missing and cannot be created.
ensureBlueprintDirThrows(st) ==
  ~st.writable /\ (~st.dirExists \/ ~st.fileExists)

ensureBlueprintDir(st) ==
  LET s1 == [st EXCEPT !.dirExists = TRUE]
  IN IF ensureBlueprintDirThrows(st) THEN st
     ELSE IF ~s1.fileExists
     THEN writeBlueprintFile(s1, JSONstringify(EmptyArray))
     ELSE s1

\* What a store operation leaves behind and gives back: the store, whether it
\* threw, its boolean result (ok), its numeric result (count), the element it
\* returns (item) and the parsed value it returns (value).
Result(st, threw, ok, count, item, value) ==
  [st |-> st, threw |-> threw, ok |-> ok, count |-> count,
   item |-> item, value |-> value]

\* ensureBlueprintDir is called before the try; fs.readFileSync and
\* JSON.parse are inside it, and the catch returns [].
loadBlueprints(st) ==
  LET s1 == ensureBlueprintDir(st)
      parsed == JSONparse(s1.text)
  IN IF ensureBlueprintDirThrows(st)
     THEN Result(st, TRUE, FALSE, 0, NullItem, NullValue)
     ELSE Result(s1, FALSE, TRUE, 0, NullItem,
                 IF ~s1.readable \/ parsed.threw THEN EmptyArray
                 ELSE parsed.value)

\* A faulty variant that puts the new blueprint first.
saveBlueprintFirst(blueprint, st) ==
  LET loaded == loadBlueprints(ensureBlueprintDir(st))
      blueprints == loaded.value
  IN IF ensureBlueprintDirThrows(st)
     THEN Result(st, TRUE, FALSE, 0, NullItem, NullValue)
     ELSE IF blueprints.kind # "array"
     THEN Result(loaded.st, FALSE, TRUE, 0, NullItem, NullValue)
     ELSE Result(writeBlueprintFile(loaded.st,
                   JSONstringify(Array(<<blueprint>> \o blueprints.items))),
                 FALSE, TRUE, 0, NullItem, NullValue)

saveBlueprint(blueprint, st) ==
  LET loaded == loadBlueprints(ensureBlueprintDir(st))
      blueprints == loaded.value
  IN IF ensureBlueprintDirThrows(st)
     THEN \* thrown before the try
          Result(st, TRUE, FALSE, 0, NullItem, NullValue)
     ELSE IF blueprints.kind # "array"
     THEN \* blueprints.push is not a function: caught and logged
          Result(loaded.st, FALSE, TRUE, 0, NullItem, NullValue)
     ELSE Result(writeBlueprintFile(loaded.st,
                   JSONstringify(Array(Append(blueprints.items, blueprint)))),
                 FALSE, TRUE, 0, NullItem, NullValue)

\* Array.prototype.findIndex with (bp) => bp.name === name: the JS index of
\* the first match, -1 when none; the callback throws on a null element that
\* is visited before a match.
findIndex(items, name) ==
  LET stops == {i \in 1..Len(items) :
                  NameThrows(items[i]) \/ items[i].name = name}
      first == CHOOSE i \in stops : \A j \in stops : i <= j
  IN IF stops = {} THEN [threw |-> FALSE, index |-> -1]
     ELSE IF NameThrows(items[first]) THEN [threw |-> TRUE, index |-> -1]
     ELSE [threw |-> FALSE, index |-> first - 1]

\* Array.prototype.filter with (bp) => bp.name !== name visits every element.
filterOut(items, name) ==
  [threw |-> \E i \in 1..Len(items) : NameThrows(items[i]),
   items |-> SelectSeq(items, LAMBDA bp : bp.name # name)]

getBlueprintByName(name, st) ==
  LET loaded == loadBlueprints(st)
      blueprints == loaded.value
      found == findIndex(blueprints.items, name)
  IN IF blueprints.kind # "array" \/ found.threw
     THEN Result(loaded.st, TRUE, FALSE, 0, NullItem, NullValue)
     ELSE IF found.index = -1
     THEN Result(loaded.st, FALSE, FALSE, 0, NullItem, NullValue)
     ELSE Result(loaded.st, FALSE, TRUE, 0,
                 blueprints.items[found.index + 1], NullValue)

\* A faulty variant that adds the blueprint when the name is not found.
updateBlueprintUpsert(name, updatedBlueprint, st) ==
  LET loaded == loadBlueprints(ensureBlueprintDir(st))
      blueprints == loaded.value
      found == findIndex(blueprints.items, name)
  IN IF blueprints.kind # "array" \/ found.threw
     THEN Result(loaded.st, FALSE, FALSE, 0, NullItem, NullValue)
     ELSE Result(writeBlueprintFile(loaded.st, JSONstringify(Array(
                   IF found.index = -1
                   THEN Append(blueprints.items, updatedBlueprint)
                   ELSE [blueprints.items EXCEPT ![found.index + 1] =
                           updatedBlueprint]))),
                 FALSE, TRUE, 0, NullItem, NullValue)

\* A faulty variant that replaces the last element instead of the one found.
updateBlueprintLast(name, updatedBlueprint, st) ==
  LET loaded == loadBlueprints(ensureBlueprintDir(st))
      blueprints == loaded.value
      found == findIndex(blueprints.items, name)
  IN IF blueprints.kind # "array" \/ found.threw \/ found.index = -1
     THEN Result(loaded.st, FALSE, FALSE, 0, NullItem, NullValue)
     ELSE Result(writeBlueprintFile(loaded.st, JSONstringify(Array(
                   [blueprints.items EXCEPT ![Len(blueprints.items)] =
                      updatedBlueprint]))),
                 FALSE, TRUE, 0, NullItem, NullValue)

updateBlueprint(name, updatedBlueprint, st) ==
  LET loaded == loadBlueprints(ensureBlueprintDir(st))
      blueprints == loaded.value
      found == findIndex(blueprints.items, name)
  IN IF ensureBlueprintDirThrows(st)
     THEN \* thrown before the try
          Result(st, TRUE, FALSE, 0, NullItem, NullValue)
     ELSE IF blueprints.kind # "array" \/ found.threw
     THEN \* TypeError: caught, return false
          Result(loaded.st, FALSE, FALSE, 0, NullItem, NullValue)
     ELSE IF found.index = -1
     THEN Result(loaded.st, FALSE, FALSE, 0, NullItem, NullValue)
     ELSE IF writeThrows(loaded.st)
     THEN \* the write's error: caught, return false
          Result(loaded.st, FALSE, FALSE, 0, NullItem, NullValue)
     ELSE Result(writeBlueprintFile(loaded.st, JSONstringify(Array(
                   [blueprints.items EXCEPT ![found.index + 1] =
                      updatedBlueprint]))),
                 FALSE, TRUE, 0, NullItem, NullValue)

\* A faulty variant that removes only the first entry of that name.
deleteBlueprintFirst(name, st) ==
  LET loaded == loadBlueprints(ensureBlueprintDir(st))
      blueprints == loaded.value
      filtered == filterOut(blueprints.items, name)
      found == findIndex(blueprints.items, name)
  IN IF blueprints.kind # "array" \/ filtered.threw
        \/ Len(filtered.items) = Len(blueprints.items)
     THEN Result(loaded.st, FALSE, FALSE, 0, NullItem, NullValue)
     ELSE Result(writeBlueprintFile(loaded.st, JSONstringify(Array(
                   SubSeq(blueprints.items, 1, found.index) \o
                   SubSeq(blueprints.items, found.index + 2,
                          Len(blueprints.items))))),
                 FALSE, TRUE, 0, NullItem, NullValue)

deleteBlueprint(name, st) ==
  LET loaded == loadBlueprints(ensureBlueprintDir(st))
      blueprints == loaded.value
      filtered == filterOut(blueprints.items, name)
  IN IF ensureBlueprintDirThrows(st)
     THEN \* thrown before the try
          Result(st, TRUE, FALSE, 0, NullItem, NullValue)
     ELSE IF blueprints.kind # "array" \/ filtered.threw
     THEN \* TypeError: caught, return false
          Result(loaded.st, FALSE, FALSE, 0, NullItem, NullValue)
     ELSE IF Len(filtered.items) = Len(blueprints.items)
     THEN Result(loaded.st, FALSE, FALSE, 0, NullItem, NullValue)
     ELSE IF writeThrows(loaded.st)
     THEN \* the write's error: caught, return false
          Result(loaded.st, FALSE, FALSE, 0, NullItem, NullValue)
     ELSE Result(writeBlueprintFile(loaded.st,
                   JSONstringify(Array(filtered.items))),
                 FALSE, TRUE, 0, NullItem, NullValue)

\* index.ts: the delete-blueprint command filters the loaded sequence itself;
\* an exception reaches handleFatalError (threw), "not found" only prints.
deleteBlueprintCommand(name, st) ==
  LET loaded == loadBlueprints(st)
      blueprints == loaded.value
      filtered == filterOut(blueprints.items, name)
  IN IF loaded.threw \/ blueprints.kind # "array" \/ filtered.threw
     THEN Result(loaded.st, TRUE, FALSE, 0, NullItem, NullValue)
     ELSE IF Len(blueprints.items) = Len(filtered.items)
     THEN Result(loaded.st, FALSE, FALSE, 0, NullItem, NullValue)
     ELSE IF writeThrows(loaded.st)
     THEN Result(loaded.st, TRUE, FALSE, 0, NullItem, NullValue)
     ELSE Result(writeBlueprintFile(loaded.st,
                   JSONstringify(Array(filtered.items))),
                 FALSE, TRUE, 0, NullItem, NullValue)

\* index.ts: the list-blueprints command prints every loaded element.  Its
\* catch calls handleFatalError (threw): for the error of ensureBlueprintDir,
\* for null.length, for forEach of a value that is no array, and for an
\* element whose bp.name or bp.config.type cannot be read.
listBlueprintsCommand(st) ==
  LET loaded == loadBlueprints(st)
      blueprints == loaded.value
  IN IF \/ loaded.threw
        \/ blueprints.kind # "array"
        \/ \E i \in 1..Len(blueprints.items) :
             \/ NameThrows(blueprints.items[i])
             \/ blueprints.items[i].config = NoConfig
     THEN Result(loaded.st, TRUE, FALSE, 0, NullItem, NullValue)
     ELSE Result(loaded.st, FALSE, TRUE, Len(blueprints.items), NullItem,
                 blueprints)

\* index.ts: the create command loads the blueprints first and, when there
\* are any and the user wants one, lists them as choices.  Its catch calls
\* handleFatalError (threw): for the error of ensureBlueprintDir, for
\* null.length, and for bp.name of a null element in the choices.  An object
\* has no length: undefined > 0 is false, and the command goes on.
createProjectCommandBlueprints(wantToUseBlueprint, st) ==
  LET loaded == loadBlueprints(st)
      blueprints == loaded.value
  IN IF \/ loaded.threw
        \/ blueprints.kind = "null"
        \/ /\ blueprints.kind = "array" /\ wantToUseBlueprint
           /\ \E i \in 1..Len(blueprints.items) :
                NameThrows(blueprints.items[i])
     THEN Result(loaded.st, TRUE, FALSE, 0, NullItem, NullValue)
     ELSE Result(loaded.st, FALSE, TRUE,
                 IF blueprints.kind = "array" THEN Len(blueprints.items)
                 ELSE 0,
                 NullItem, blueprints)

\* exportBlueprints writes the loaded value to filePath; value is that text's
\* JSON value.
exportBlueprints(st) ==
  LET loaded == loadBlueprints(st)
  IN Result(loaded.st, FALSE, ~loaded.threw, 0, NullItem, loaded.value)

\* The forEach callback of importBlueprints from element i on.  acc is
\* [list, count, threw]: updatedBlueprints, importCount, and whether the
\* callback threw (which ends the loop).
RECURSIVE importEach(_, _, _, _)
importEach(importedData, i, overwrite, acc) ==
  IF i > Len(importedData) \/ acc.threw THEN acc
  ELSE LET blueprint == importedData[i]
           existing == findIndex(acc.list, blueprint.name)
       IN IF NameThrows(blueprint) THEN [acc EXCEPT !.threw = TRUE]
          ELSE IF blueprint.name = "" \/ blueprint.config = NoConfig
                  \/ blueprint.createdAt = ""
          THEN importEach(importedData, i + 1, overwrite, acc)
          ELSE IF existing.threw THEN [acc EXCEPT !.threw = TRUE]
          ELSE IF existing.index >= 0 /\ overwrite
          THEN importEach(importedData, i + 1, overwrite,
                 [acc EXCEPT !.list[existing.index + 1] = blueprint,
                             !.count = @ + 1])
          ELSE IF existing.index = -1
          THEN importEach(importedData, i + 1, overwrite,
                 [acc EXCEPT !.list = Append(@, blueprint), !.count = @ + 1])
          ELSE importEach(importedData, i + 1, overwrite, acc)

\* A faulty variant that replaces an existing name whatever the overwrite flag says.
importBlueprintsAlwaysOverwrite(fileText, overwrite, st) ==
  LET parsed == JSONparse(fileText)
      loaded == loadBlueprints(st)
      done == importEach(parsed.value.items, 1, TRUE,
                [list |-> loaded.value.items, count |-> 0, threw |-> FALSE])
  IN IF parsed.threw \/ parsed.value.kind # "array"
     THEN Result(st, FALSE, FALSE, 0, NullItem, NullValue)
     ELSE IF loaded.value.kind # "array" \/ done.threw
     THEN Result(loaded.st, FALSE, FALSE, 0, NullItem, NullValue)
     ELSE Result(writeBlueprintFile(loaded.st,
                   JSONstringify(Array(done.list))),
                 FALSE, TRUE, done.count, NullItem, NullValue)

\* fileText is the text of the file at filePath.  Every exception is caught
\* and the result is then 0 (ok is FALSE).
importBlueprints(fileText, overwrite, st) ==
  LET parsed == JSONparse(fileText)
      loaded == loadBlueprints(st)
      done == importEach(parsed.value.items, 1, overwrite,
                [list |-> loaded.value.items, count |-> 0, threw |-> FALSE])
  IN IF parsed.threw \/ parsed.value.kind # "array"
     THEN \* SyntaxError, or "Invalid blueprint format"
          Result(st, FALSE, FALSE, 0, NullItem, NullValue)
     ELSE IF loaded.threw \/ loaded.value.kind # "array" \/ done.threw
     THEN \* ensureBlueprintDir's error, the spread of a non-array, or a
          \* TypeError in the callback
          Result(loaded.st, FALSE, FALSE, 0, NullItem, NullValue)
     ELSE IF writeThrows(loaded.st)
     THEN Result(loaded.st, FALSE, FALSE, 0, NullItem, NullValue)
     ELSE Result(writeBlueprintFile(loaded.st,
                   JSONstringify(Array(done.list))),
                 FALSE, TRUE, done.count, NullItem, NullValue)

\* ------------------------------------------------------------ filesystem
\* The filesystem is the set of directories and the set of files, a file
\* being [path, content], and the set of paths at which the operating system
\* fails a creation or a write (denied).  <<>> is the filesystem root.
HomeDir == <<"~">>
\* DEFAULT_TEMPLATES_DIR = path.join(os.homedir(), "dev", "templates")
DEFAULT_TEMPLATES_DIR == HomeDir \o <<"dev", "templates">>

\* path.join(base, relative) and path.dirname(p)
join(base, relative) == base \o relative
dirname(p) == SubSeq(p, 1, Len(p) - 1)

Prefixes(p) == {SubSeq(p, 1, k) : k \in 0..Len(p)}

IsFile(f, p) == \E file \in f.files : file.path = p

existsSync(f, p) == p \in f.dirs \/ IsFile(f, p)

\* A generator run in progress: the filesystem, the lines logged, and the
\* error thrown ("" while none is).
Progress(f, log, error) == [fs |-> f, log |-> log, error |-> error]

Say(acc, msg, p) == [acc EXCEPT !.log = Append(@, [msg |-> msg, path |-> p])]

\* fs.mkdirSync(p, { recursive: true }): creates p and its missing parents;
\* fails when a file is in the way, and at the first missing directory whose
\* creation the operating system fails (the ones above it are created).
mkdirSync(acc, p) ==
  LET blocked == {q \in Prefixes(p) \ acc.fs.dirs : q \in acc.fs.denied}
  IN IF \E q \in Prefixes(p) : IsFile(acc.fs, q)
     THEN [acc EXCEPT !.error = "EEXIST"]
     ELSE IF blocked # {}
     THEN [acc EXCEPT !.error = "EACCES",
                      !.fs.dirs = @ \cup {q \in Prefixes(p) :
                                            \A b \in blocked : Len(q) < Len(b)}]
     ELSE [acc EXCEPT !.fs.dirs = @ \cup Prefixes(p)]

\* fs.writeFileSync(p, content): creates or overwrites the file; fails when
\* the parent directory is missing, p is a directory, or the operating
\* system fails the write.
writeFileSync(acc, p, content) ==
  IF dirname(p) \notin acc.fs.dirs THEN [acc EXCEPT !.error = "ENOENT"]
  ELSE IF p \in acc.fs.dirs THEN [acc EXCEPT !.error = "EISDIR"]
  ELSE IF p \in acc.fs.denied THEN [acc EXCEPT !.error = "EACCES"]
  ELSE [acc EXCEPT !.fs.files =
          {file \in @ : file.path # p} \cup {[path |-> p, content |-> content]}]

\* ------------------------------------------------------------- file texts
\* A template whose text no property reads is the one line naming it.
Template(id) == << <<id>> >>

\* Record<string, string> assignment: a new key goes last, a key already
\* there keeps its place and takes the new value.
Put(files, p, content) ==
  IF \E i \in 1..Len(files) : files[i].path = p
  THEN [i \in 1..Len(files) |->
          IF files[i].path = p THEN [path |-> p, content |-> content]
          ELSE files[i]]
  ELSE Append(files, [path |-> p, content |-> content])

RECURSIVE PutAll(_, _)
PutAll(files, entries) ==
  IF entries = <<>> THEN files
  ELSE PutAll(Put(files, Head(entries).path, Head(entries).content),
              Tail(entries))

Entry(p, content) == [path |-> p, content |-> content]

\* commonFilesGenerator.generateEnvFile(config, isExample)
EnvSensitiveValue(isExample) ==
  IF isExample THEN "your-secret-value-here" ELSE "supersecretvalue123"

generateEnvFile(config, isExample) ==
  << <<"# Server Configuration">>, <<"PORT=3000">>,
     <<"NODE_ENV=development">>, <<"">> >> \o
  (IF config.backend.database = "mongodb"
   THEN << <<"# Database">>,
           <<"MONGODB_URI=mongodb://localhost:27017/", config.name>>,
           <<"">> >>
   ELSE IF config.backend.database = "postgres"
   THEN << <<"# Database">>, <<"POSTGRES_HOST=localhost">>,
           <<"POSTGRES_PORT=5432">>, <<"POSTGRES_DB=", config.name>>,
           <<"POSTGRES_USER=postgres">>,
           <<"POSTGRES_PASSWORD=",
             IF isExample THEN "your-password-here" ELSE "postgres">>,
           <<"">> >>
   ELSE <<>>) \o
  (IF config.features.authentication
   THEN << <<"# Authentication">>,
           <<"JWT_SECRET=", EnvSensitiveValue(isExample)>>,
           <<"JWT_ACCESS_EXPIRATION_MINUTES=30">>,
           <<"JWT_REFRESH_EXPIRATION_DAYS=30">>, <<"">> >>
   ELSE <<>>) \o
  (IF config.type = "web" \/ config.type = "mobile"
   THEN << <<"# API Configuration">>,
           <<"API_URL=http://localhost:3000/api">>,
           <<"API_TIMEOUT=30000">>, <<"">> >>
   ELSE <<>>) \o
  << <<"# Feature Flags">>, <<"ENABLE_LOGGING=true">> >> \o
  (IF config.features.authentication
   THEN << <<"ENABLE_AUTH=true">>, <<"">> >> ELSE << <<"">> >>) \o
  (IF config.features.crudSetup
   THEN << <<"ENABLE_CRUD_API=true">>, <<"">> >> ELSE << <<"">> >>) \o
  << <<"">>, <<"# For Production/Staging (examples)">>, <<"# PORT=8080">>,
     <<"# API_URL=https://api.", config.name, ".com">> >> \o
  (IF config.features.authentication
   THEN << <<"# JWT_SECRET=",
             IF isExample THEN "your-production-secret"
             ELSE "production-secret-value-123">>, <<"">> >>
   ELSE << <<"">> >>)

\* The generateEnvFile that stands next to getProjectFiles (it tests the
\* database against "postgresql", which ProjectConfig does not declare, and
\* writes no feature flags).
generateEnvFileLocal(config, isExample) ==
  << <<"# Server Configuration">>, <<"PORT=3000">>,
     <<"NODE_ENV=development">> >> \o
  (IF config.backend.database = "mongodb"
   THEN << <<"# Database">>,
           <<"MONGODB_URI=mongodb://localhost:27017/", config.name>> >>
   ELSE IF config.backend.database = "postgresql"
   THEN << <<"# Database">>, <<"POSTGRES_HOST=localhost">>,
           <<"POSTGRES_PORT=5432">>, <<"POSTGRES_DB=", config.name>>,
           <<"POSTGRES_USER=postgres">>,
           <<"POSTGRES_PASSWORD=",
             IF isExample THEN "your-password-here" ELSE "postgres">> >>
   ELSE <<>>) \o
  (IF config.features.authentication
   THEN << <<"# Authentication">>,
           <<"JWT_SECRET=", EnvSensitiveValue(isExample)>>,
           <<"JWT_ACCESS_EXPIRATION_MINUTES=30">>,
           <<"JWT_REFRESH_EXPIRATION_DAYS=30">> >>
   ELSE <<>>) \o
  (IF config.type = "web" \/ config.type = "mobile"
   THEN << <<"# API Configuration">>,
           <<"API_URL=http://localhost:3000/api">>,
           <<"API_TIMEOUT=30000">> >>
   ELSE <<>>) \o
  << <<"# For Production/Staging (examples)">>, <<"# PORT=8080">>,
     <<"# API_URL=https://api.", config.name, ".com">> >> \o
  (IF config.features.authentication
   THEN << <<"# JWT_SECRET=",
             IF isExample THEN "your-production-secret"
             ELSE "production-secret-value-123">>, <<"">> >>
   ELSE << <<"">> >>)

\* ---------------------------------------------------------------- planner
\* A faulty variant that does not read crudSetup.
WebFeatureDirectoriesWithoutData(config) ==
  (IF config.features.authentication
   THEN << <<"src", "features", "auth">>,
           <<"src", "features", "auth", "components">>,
           <<"src.features", "auth", "services">> >>
   ELSE <<>>) \o
  (IF config.features.userProfiles
   THEN << <<"src", "features", "profiles">>,
           <<"src", "features", "profiles", "components">> >>
   ELSE <<>>)

\* The feature-specific directories of a web project.
WebFeatureDirectories(config) ==
  (IF config.features.authentication
   THEN << <<"src", "features", "auth">>,
           <<"src", "features", "auth", "components">>,
           <<"src.features", "auth", "services">> >>
   ELSE <<>>) \o
  (IF config.features.userProfiles
   THEN << <<"src", "features", "profiles">>,
           <<"src", "features", "profiles", "components">> >>
   ELSE <<>>) \o
  (IF config.features.crudSetup
   THEN << <<"src", "features", "data">>,
           <<"src", "features", "data", "services">> >>
   ELSE <<>>)

getProjectDirectories(config) ==
  << <<"src">>, <<"docs">> >> \o
  (IF config.type = "web"
   THEN << <<"public">>, <<"src", "app">>, <<"src", "features">>,
           <<"src", "shared">>, <<"src", "lib">>, <<"src", "assets">>,
           <<"src", "assets", "images">>, <<"src", "assets", "styles">> >> \o
        WebFeatureDirectories(config) \o
        << <<"src", "features", "home">> >>
   ELSE IF config.type = "mobile"
   THEN << <<"assets">>, <<"src", "app">>, <<"src", "components">>,
           <<"src", "features">>, <<"src", "navigation">>, <<"src", "lib">>,
           <<"assets", "images">> >>
   ELSE IF config.type = "backend"
   THEN << <<"src", "config">>, <<"src", "controllers">>,
           <<"src", "middleware">>, <<"src", "models">>, <<"src", "routes">>,
           <<"src", "services">>, <<"src", "utils">>, <<"tests">> >> \o
        (IF config.backend.apiVersioning
         THEN << <<"src", "routes", "v1">> >> ELSE <<>>)
   ELSE <<>>)

\* The files every project type gets.
CommonFiles(config) ==
  << Entry(<<"README.md">>, Template("generateReadmeContent")),
     Entry(<<".gitignore">>, Template("generateGitignoreContent")),
     Entry(<<".env">>, generateEnvFile(config, FALSE)),
     Entry(<<".env.example">>, generateEnvFile(config, TRUE)),
     Entry(<<"prettier.config.js">>, Template("generatePrettierConfig")),
     Entry(<<"package.json">>, Template("generatePackageJson")),
     Entry(<<"tsconfig.json">>, Template("generateTsConfig")) >>

WebFiles(config) ==
  << Entry(<<"src", "index.tsx">>, Template("generateWebIndexFile")),
     Entry(<<"src", "app", "App.tsx">>, Template("generateWebAppFile")),
     Entry(<<"src", "index.css">>, Template("generateWebCssFile")),
     Entry(<<"src", "shared", "Layout.tsx">>,
           Template("generateWebLayoutFile")),
     Entry(<<"src", "shared", "Navbar.tsx">>,
           Template("generateWebNavbarFile")),
     Entry(<<"src", "features", "home", "Home.tsx">>,
           Template("generateWebHomePage")) >> \o
  (IF config.stateManagement = "redux"
   THEN << Entry(<<"src", "lib", "store.ts">>,
                 Template("generateReduxStore")) >>
   ELSE <<>>) \o
  (IF config.themeToggle
   THEN << Entry(<<"src", "lib", "theme.tsx">>,
                 Template("generateThemeToggle")) >>
   ELSE <<>>)

MobileFiles(config) ==
  << Entry(<<"App.tsx">>, Template("generateMobileAppFile")),
     Entry(<<"app.json">>, Template("generateMobileAppJson")),
     Entry(<<"babel.config.js">>, Template("generateMobileBabelConfig")) >>

\* projectGenerator.ts: the server entry is a one-line stub.
generateBackendIndexFile(config) == << <<"// Backend entry point">> >>

BackendFiles(config) ==
  << Entry(<<"src", "index.ts">>, generateBackendIndexFile(config)),
     Entry(<<"src", "config", "index.ts">>,
           Template("generateBackendConfig")),
     Entry(<<"src", "routes", "index.ts">>,
           Template("generateBackendRoutes")) >>

AuthMiddlewareFile(config) ==
  IF config.features.authentication
  THEN << Entry(<<"src", "middleware", "auth.middleware.ts">>,
                Template("generateAuthMiddleware")) >>
  ELSE <<>>

\* projectGenerator.ts
getProjectFiles(config) ==
  PutAll(<<>>,
    CommonFiles(config) \o
    (IF config.type = "web" THEN WebFiles(config)
     ELSE IF config.type = "mobile" THEN MobileFiles(config)
     ELSE IF config.type = "backend"
     THEN BackendFiles(config) \o AuthMiddlewareFile(config)
     ELSE <<>>))

\* The copy of getProjectFiles in errorHandler.ts: its backend branch assigns
\* ".env" and ".env.example" again, both from generateEnvFile(config).
getProjectFilesCopy(config) ==
  PutAll(<<>>,
    CommonFiles(config) \o
    (IF config.type = "web" THEN WebFiles(config)
     ELSE IF config.type = "mobile" THEN MobileFiles(config)
     ELSE IF config.type = "backend"
     THEN BackendFiles(config) \o
          << Entry(<<".env">>, generateEnvFileLocal(config, FALSE)),
             Entry(<<".env.example">>, generateEnvFileLocal(config, FALSE)) >>
          \o AuthMiddlewareFile(config)
     ELSE <<>>))

\* index.ts: TEMPLATE_DIRS, the directories and (path, template key) pairs of
\* the inline generator.
TEMPLATE_DIRS ==
  [web |->
     [root |-> << <<"src">>, <<"src", "app">>, <<"src", "features">>,
                  <<"src", "features", "home">>, <<"src", "shared">>,
                  <<"src", "lib">>, <<"public">> >>,
      files |-> << Entry(<<"src", "index.tsx">>, "webIndexContent"),
                   Entry(<<"src", "index.css">>, "webCssContent"),
                   Entry(<<"src", "app", "App.tsx">>, "webAppContent"),
                   Entry(<<"src", "features", "home", "Home.tsx">>,
                         "webHomeContent"),
                   Entry(<<"src", "shared", "Layout.tsx">>,
                         "webLayoutContent"),
                   Entry(<<"src", "shared", "Navbar.tsx">>,
                         "webNavbarContent") >>],
   mobile |->
     [root |-> << <<"src">>, <<"src", "app">>, <<"src", "features">>,
                  <<"src", "features", "home">>, <<"src", "shared">>,
                  <<"src", "lib">>, <<"assets">> >>,
      files |-> <<>>],
   backend |->
     [root |-> << <<"src">>, <<"src", "config">>, <<"src", "controllers">>,
                  <<"src", "middleware">>, <<"src", "models">>,
                  <<"src", "routes">>, <<"src", "services">>,
                  <<"src", "utils">> >>,
      files |-> << Entry(<<"src", "index.ts">>, "backendIndexContent"),
                   Entry(<<"src", "config", "index.ts">>,
                         "backendConfigContent"),
                   Entry(<<"src", "config", "database.ts">>,
                         "backendDatabaseContent"),
                   Entry(<<"src", "config", "passport.ts">>,
                         "backendPassportContent") >>]]

\* The keys the inline generator's getTemplateContent knows.
TemplateKeys ==
  {"webIndexContent", "webAppContent", "webCssContent", "webLayoutContent",
   "webNavbarContent", "webHomeContent", "backendIndexContent",
   "backendConfigContent", "backendDatabaseContent",
   "backendPassportContent"}

\* getTemplateContent.backendIndexContent: the lines of the server entry that
\* import and mount the routes and that depend on the config.
backendIndexContent(config) ==
  << <<"import express from 'express';">>,
     <<"import routes from ", "./routes">>,
     IF config.backend.database = "mongodb"
     THEN <<"import { connectMongoDB } from './config/database';">>
     ELSE <<"import { connectPostgres } from './config/database';">>,
     <<"// API routes">>,
     <<"app.use(", "/api", ", routes);">>,
     IF config.backend.database = "mongodb"
     THEN <<"await connectMongoDB();">>
     ELSE <<"await connectPostgres();">>,
     <<"export default app;">> >>

\* An unknown key renders the empty text.
getTemplateContent(contentKey, config) ==
  IF contentKey = "backendIndexContent" THEN backendIndexContent(config)
  ELSE IF contentKey \in TemplateKeys THEN Template(contentKey)
  ELSE <<>>

\* ----------------------------------------------------------- materializer
\* A faulty variant that logs a directory only when it creates it.
RECURSIVE createDirectoriesSilentDryRun(_, _, _, _)
createDirectoriesSilentDryRun(directories, projectPath, dryRun, acc) ==
  IF directories = <<>> \/ acc.error # "" THEN acc
  ELSE LET dirPath == join(projectPath, Head(directories))
       IN createDirectoriesSilentDryRun(Tail(directories), projectPath, dryRun,
            IF ~dryRun
            THEN mkdirSync(Say(acc, "Creating directory", dirPath), dirPath)
            ELSE acc)

\* for (const dir of directories): log, then mkdir unless dryRun.  An error
\* ends the loop.
RECURSIVE createDirectories(_, _, _, _)
createDirectories(directories, projectPath, dryRun, acc) ==
  IF directories = <<>> \/ acc.error # "" THEN acc
  ELSE LET dirPath == join(projectPath, Head(directories))
           logged == Say(acc, "Creating directory", dirPath)
       IN createDirectories(Tail(directories), projectPath, dryRun,
            IF ~dryRun THEN mkdirSync(logged, dirPath) ELSE logged)

\* The file loop of createProjectStructure: log; when not dryRun make sure
\* the parent directory exists and write, else log a preview.
RECURSIVE createFiles(_, _, _, _)
createFiles(files, projectPath, dryRun, acc) ==
  IF files = <<>> \/ acc.error # "" THEN acc
  ELSE LET fullPath == join(projectPath, Head(files).path)
           logged == Say(acc, "Creating file", fullPath)
           dirName == dirname(fullPath)
           ensured == IF ~existsSync(logged.fs, dirName)
                      THEN mkdirSync(logged, dirName) ELSE logged
       IN createFiles(Tail(files), projectPath, dryRun,
            IF ~dryRun
            THEN IF ensured.error # "" THEN ensured
                 ELSE writeFileSync(ensured, fullPath, Head(files).content)
            ELSE Say(logged, "Content preview", fullPath))

\* A faulty variant that writes the files in a dry run too.
createProjectStructureWritesInDryRun(config, projectPath, dryRun, acc) ==
  createFiles(getProjectFiles(config), projectPath, FALSE,
    createDirectories(getProjectDirectories(config), projectPath, dryRun, acc))

\* projectGenerator.ts
createProjectStructure(config, projectPath, dryRun, acc) ==
  createFiles(getProjectFiles(config), projectPath, dryRun,
    createDirectories(getProjectDirectories(config), projectPath, dryRun, acc))

\* errorHandler.ts
createProjectStructureCopy(config, projectPath, dryRun, acc) ==
  createFiles(getProjectFilesCopy(config), projectPath, dryRun,
    createDirectories(getProjectDirectories(config), projectPath, dryRun, acc))

\* The file loops of the inline generator: log, render, and write unless
\* dryRun (no parent directory is made), else log the size.
RECURSIVE writeTemplates(_, _, _, _, _)
writeTemplates(files, config, projectPath, dryRun, acc) ==
  IF files = <<>> \/ acc.error # "" THEN acc
  ELSE LET fullPath == join(projectPath, Head(files).path)
           logged == Say(acc, "Creating file", fullPath)
           content == getTemplateContent(Head(files).content, config)
       IN writeTemplates(Tail(files), config, projectPath, dryRun,
            IF ~dryRun THEN writeFileSync(logged, fullPath, content)
            ELSE Say(logged, "Would write", fullPath))

\* The auth block of addFeatureFiles for a web project.
WebAuthFiles(config) ==
  PutAll(<<>>,
    << Entry(<<"src", "features", "auth", "components", "Login.tsx">>,
             "webLoginContent"),
       Entry(<<"src", "features", "auth", "components", "RequireAuth.tsx">>,
             "webRequireAuthContent"),
       Entry(<<"src", "features", "auth", "index.ts">>,
             "webAuthIndexContent") >> \o
    (IF config.stateManagement = "redux"
     THEN << Entry(<<"src", "features", "auth", "authSlice.ts">>,
                   "webAuthSliceContent"),
             Entry(<<"src", "lib", "store.ts">>, "webStoreContent") >>
     ELSE << Entry(<<"src", "features", "auth", "authContext.tsx">>,
                   "webAuthContextContent") >>))

MobileAuthFiles(config) ==
  PutAll(<<>>,
    (IF config.stateManagement = "redux"
     THEN << Entry(<<"features", "auth", "authSlice.ts">>,
                   "mobileAuthSliceContent"),
             Entry(<<"lib", "store.ts">>, "mobileStoreContent") >>
     ELSE << Entry(<<"features", "auth", "authContext.tsx">>,
                   "mobileAuthContextContent") >>) \o
    (IF config.themeToggle
     THEN << Entry(<<"lib", "useColorScheme.tsx">>,
                   "mobileUseColorSchemeContent") >>
     ELSE <<>>))

\* The directories of the auth block of addFeatureFiles for a web project.
WebAuthDirectories ==
  << <<"src", "features", "auth">>,
     <<"src", "features", "auth", "components">>,
     <<"src", "features", "auth", "services">> >>

addFeatureFiles(config, projectPath, dryRun, acc) ==
  LET webAuth ==
        IF config.type = "web" /\ config.features.authentication
        THEN writeTemplates(WebAuthFiles(config), config, projectPath, dryRun,
               createDirectories(WebAuthDirectories, projectPath, dryRun,
                                 acc))
        ELSE acc
      theme ==
        IF webAuth.error = "" /\ config.type = "web" /\ config.themeToggle
        THEN writeTemplates(
               << Entry(<<"src", "lib", "theme.tsx">>, "webThemeContent") >>,
               config, projectPath, dryRun, webAuth)
        ELSE webAuth
      mobileAuth ==
        IF theme.error = "" /\ config.type = "mobile"
           /\ config.features.authentication
        THEN writeTemplates(MobileAuthFiles(config), config, projectPath,
                            dryRun, theme)
        ELSE theme
      fontDirPath == join(projectPath, <<"assets", "fonts">>)
      fontLogged == Say(mobileAuth, "Creating directory", fontDirPath)
      fontDir == mkdirSync(fontLogged, fontDirPath)
  IN IF mobileAuth.error = "" /\ config.type = "mobile"
        /\ config.features.authentication
     THEN IF dryRun THEN fontLogged
          ELSE IF fontDir.error # "" THEN fontDir
          ELSE writeFileSync(fontDir,
                 join(fontDirPath, <<"SpaceMono-Regular.ttf">>),
                 Template("font placeholder"))
     ELSE mobileAuth

generateFrontendProject(config, projectPath, dryRun, acc) ==
  LET structure == IF config.type = "web" THEN TEMPLATE_DIRS.web
                   ELSE TEMPLATE_DIRS.mobile
      written == writeTemplates(structure.files, config, projectPath, dryRun,
                   createDirectories(structure.root, projectPath, dryRun, acc))
  IN IF written.error # "" THEN written
     ELSE addFeatureFiles(config, projectPath, dryRun, written)

generateBackendProject(config, projectPath, dryRun, acc) ==
  LET written == writeTemplates(TEMPLATE_DIRS.backend.files, config,
                   projectPath, dryRun,
                   createDirectories(TEMPLATE_DIRS.backend.root, projectPath,
                                     dryRun, acc))
      servicesIndexPath == join(projectPath, <<"src", "services", "index.ts">>)
      logged == Say(written, "Creating file", servicesIndexPath)
  IN IF written.error # "" THEN written
     ELSE IF ~dryRun
     THEN writeFileSync(logged, servicesIndexPath,
            getTemplateContent("backendAuthIndexContent", config))
     ELSE Say(logged, "Would create services index file", servicesIndexPath)

\* The inline generator chooses the structure by project type.
generateInlineStructure(config, projectPath, dryRun, acc) ==
  IF config.type = "web" \/ config.type = "mobile"
  THEN generateFrontendProject(config, projectPath, dryRun, acc)
  ELSE generateBackendProject(config, projectPath, dryRun, acc)

\* A faulty variant that never sees the project directory.
projectDirectoryNeverExists(f, projectPath, dryRun) == FALSE

\* if (fs.existsSync(projectPath) && !dryRun) throw new Error(...)
projectDirectoryExists(f, projectPath, dryRun) ==
  existsSync(f, projectPath) /\ ~dryRun

\* generateProject up to the test for an existing project directory: the
\* templates directory is made (the two module copies log that, the inline
\* one does not).
templatesDirectory(impl, dryRun, f) ==
  IF ~existsSync(f, DEFAULT_TEMPLATES_DIR) /\ ~dryRun
  THEN mkdirSync(IF impl # "inline"
                 THEN Say(Progress(f, <<>>, ""),
                          "Creating templates directory",
                          DEFAULT_TEMPLATES_DIR)
                 ELSE Progress(f, <<>>, ""), DEFAULT_TEMPLATES_DIR)
  ELSE Progress(f, <<>>, "")

\* generateProject from there up to the call that creates the structure, in
\* which the directories and the files are planned: the project directory is
\* announced and made.
projectDirectory(impl, config, dryRun, f) ==
  IF ~dryRun
  THEN mkdirSync(Say(Say(templatesDirectory(impl, dryRun, f),
                         "Generating project",
                         join(DEFAULT_TEMPLATES_DIR, <<config.name>>)),
                     "Creating project directory",
                     join(DEFAULT_TEMPLATES_DIR, <<config.name>>)),
                 join(DEFAULT_TEMPLATES_DIR, <<config.name>>))
  ELSE Say(Say(templatesDirectory(impl, dryRun, f), "Generating project",
               join(DEFAULT_TEMPLATES_DIR, <<config.name>>)),
           "Creating project directory",
           join(DEFAULT_TEMPLATES_DIR, <<config.name>>))

\* What the three generateProject copies share: make the templates directory
\* (the two module copies log that, the inline one does not), refuse an
\* existing project directory, make the project directory, create the
\* structure and report.  A dry run skips every one of the writes.  The
\* post-generation actions of the inline copy (installing dependencies,
\* opening an editor) are outside the model.
generateProjectWith(impl, config, dryRun, f) ==
  LET templates == templatesDirectory(impl, dryRun, f)
      projectPath == join(DEFAULT_TEMPLATES_DIR, <<config.name>>)
      created == projectDirectory(impl, config, dryRun, f)
      structured ==
        IF impl = "projectGenerator"
        THEN createProjectStructure(config, projectPath, dryRun, created)
        ELSE IF impl = "errorHandler"
        THEN createProjectStructureCopy(config, projectPath, dryRun, created)
        ELSE generateInlineStructure(config, projectPath, dryRun, created)
  IN IF templates.error # "" THEN templates
     ELSE IF projectDirectoryExists(templates.fs, projectPath, dryRun)
     THEN [templates EXCEPT !.error = "AlreadyExists"]
     ELSE IF created.error # "" THEN created
     ELSE IF structured.error # "" THEN structured
     ELSE Say(structured, "Project generated", projectPath)

\* projectGenerator.ts
generateProject(config, dryRun, f) ==
  generateProjectWith("projectGenerator", config, dryRun, f)

\* errorHandler.ts
generateProjectCopy(config, dryRun, f) ==
  generateProjectWith("errorHandler", config, dryRun, f)

\* The generator that is written out in the command file itself.
generateProjectInline(config, dryRun, f) ==
  generateProjectWith("inline", config, dryRun, f)

\* ------------------------------------------------ the single-file generator
\* The generator of the single-file program: it reads the type, the name and
\* the backend choices of the config, and always writes below
\* DEFAULT_OUTPUT_DIR/<name>.
DEFAULT_OUTPUT_DIR == HomeDir \o <<"dev", "templates">>

outputDirOf(config) == join(DEFAULT_OUTPUT_DIR, <<config.name>>)

IsUnder(q, p) == Len(q) >= Len(p) /\ SubSeq(q, 1, Len(p)) = p

\* fs.rmSync(p, { recursive: true, force: true })
rmSync(acc, p) ==
  [acc EXCEPT !.fs.dirs = {d \in @ : ~IsUnder(d, p)},
              !.fs.files = {file \in @ : ~IsUnder(file.path, p)}]

\* fileOperation(operation, dryRunMessage, errorMessage), attempted being the
\* progress after the operation ran: a dry run logs and runs nothing; an error
\* of the operation is logged and not passed on; a success logs okMsg when
\* the operation prints one.
fileOperation(acc, attempted, dryRun, okMsg, p) ==
  IF dryRun THEN Say(acc, "Dry run", p)
  ELSE IF attempted.error # ""
  THEN Say([attempted EXCEPT !.error = ""], "Failed", p)
  ELSE IF okMsg # "" THEN Say(attempted, okMsg, p)
  ELSE attempted

\* fileOperation returned null and the run is a real one.
fileOperationFailed(attempted, dryRun) == ~dryRun /\ attempted.error # ""

\* createProjectDirectory(): makes the root, asks before it replaces an
\* existing project directory (overwrite is the answer), removes it when the
\* answer is yes, and creates the project directory.  The error field of the
\* result says that it returned false.
createProjectDirectory(config, dryRun, overwrite, acc) ==
  LET outputDir == outputDirOf(config)
      rootMissing == ~existsSync(acc.fs, DEFAULT_OUTPUT_DIR)
      rootTried == mkdirSync(acc, DEFAULT_OUTPUT_DIR)
      rooted == IF rootMissing
                THEN fileOperation(acc, rootTried, dryRun, "Created",
                                   DEFAULT_OUTPUT_DIR)
                ELSE acc
      exists == existsSync(rooted.fs, outputDir)
      asked == Say(rooted, "Confirm overwrite", outputDir)
      cleared == IF exists
                 THEN fileOperation(asked, rmSync(asked, outputDir), dryRun,
                                    "Removed", outputDir)
                 ELSE rooted
      createTried == mkdirSync(cleared, outputDir)
      created == fileOperation(cleared, createTried, dryRun, "Created",
                               outputDir)
  IN IF rootMissing /\ fileOperationFailed(rootTried, dryRun)
     THEN [rooted EXCEPT !.error = "NoProjectDirectory"]
     ELSE IF exists /\ ~overwrite
     THEN [Say(asked, "Cancelled", outputDir)
             EXCEPT !.error = "NoProjectDirectory"]
     ELSE IF fileOperationFailed(createTried, dryRun)
     THEN [created EXCEPT !.error = "NoProjectDirectory"]
     ELSE created

\* createProjectFile(relativePath, content): makes the parent directory when
\* it is missing, gives up when that fails, and writes the file.
createProjectFile(relativePath, content, config, dryRun, acc) ==
  LET filePath == join(outputDirOf(config), relativePath)
      dirPath == dirname(filePath)
      dirMissing == ~existsSync(acc.fs, dirPath)
      dirTried == mkdirSync(acc, dirPath)
      ensured == IF dirMissing
                 THEN fileOperation(acc, dirTried, dryRun, "", dirPath)
                 ELSE acc
  IN IF dirMissing /\ fileOperationFailed(dirTried, dryRun) THEN ensured
     ELSE fileOperation(ensured, writeFileSync(ensured, filePath, content),
                        dryRun, "Created", filePath)

\* for (const folder of folders) fileOperation(mkdirSync ...): a failure sets
\* a flag and the loop goes on (fileOperation never leaves an error, so the
\* test of created.error always takes the first branch).
RECURSIVE createFolders(_, _, _, _)
createFolders(folders, config, dryRun, acc) ==
  IF folders = <<>> THEN acc
  ELSE LET folderPath == join(outputDirOf(config), Head(folders))
           created == fileOperation(acc, mkdirSync(acc, folderPath), dryRun,
                                    "Created", folderPath)
       IN IF created.error = ""
          THEN createFolders(Tail(folders), config, dryRun, created)
          ELSE created

generateCommonFiles(config, dryRun, acc) ==
  createProjectFile(<<"prettier.config.js">>, Template("prettierConfig"),
                    config, dryRun,
    createProjectFile(<<".gitignore">>, Template("gitignoreContent"),
                      config, dryRun,
      createProjectFile(<<".env">>, Template("envContent"), config, dryRun,
                        acc)))

WebAppFolders ==
  << <<"public">>, <<"src", "app">>, <<"src", "components">>,
     <<"src", "config">>, <<"src", "features">>, <<"src", "store">>,
     <<"src", "hooks">>, <<"src", "assets">>, <<"src", "testing">>,
     <<"src", "types">>, <<"src", "lib">>, <<"src", "utils">> >>

generateWebAppStructure(config, dryRun, acc) ==
  createProjectFile(<<"src", "index.tsx">>, Template("indexContent"),
                    config, dryRun,
    createFolders(WebAppFolders, config, dryRun, acc))

MobileAppFolders ==
  << <<"app">>, <<"components">>, <<"features">>, <<"assets">>, <<"lib">>,
     <<"utils">>, <<"config">>, <<"hooks">>, <<"types">>,
     <<"assets", "images">>, <<"assets", "fonts">>, <<"assets", "icons">> >>

generateMobileAppStructure(config, dryRun, acc) ==
  createProjectFile(<<"app", "App.tsx">>, Template("appContent"),
                    config, dryRun,
    createFolders(MobileAppFolders, config, dryRun, acc))

BackendFolders ==
  << <<"src", "config">>, <<"src", "controllers">>, <<"src", "middleware">>,
     <<"src", "models">>, <<"src", "routes">>, <<"src", "services">>,
     <<"src", "utils">>, <<"src", "types">>, <<"src", "tests">> >>

\* The server entry of the single-file generator: the import and the mount
\* follow backend.apiVersioning.
backendIndexFileContent(config) ==
  IF config.backend.apiVersioning
  THEN << <<"import v1Routes from ", "./routes/v1">>,
          <<"app.use(", "/api/v1", ", v1Routes);">> >>
  ELSE << <<"import routes from ", "./routes">>,
          <<"app.use(", "/api", ", routes);">> >>

generateBackendStructure(config, dryRun, acc) ==
  createProjectFile(<<"src", "index.ts">>, backendIndexFileContent(config),
                    config, dryRun,
    createFolders(BackendFolders, config, dryRun, acc))

\* main(), from the creation of the project directory on.  Only a project
\* directory that could not be made ends the run early.
main(config, dryRun, overwrite, f) ==
  LET directory == createProjectDirectory(config, dryRun, overwrite,
                                          Progress(f, <<>>, ""))
      common == generateCommonFiles(config, dryRun, directory)
      typed == IF config.type = "web"
               THEN generateWebAppStructure(config, dryRun, common)
               ELSE IF config.type = "mobile"
               THEN generateMobileAppStructure(config, dryRun, common)
               ELSE common
      backend == generateBackendStructure(config, dryRun, typed)
      readme == IF config.type \in {"web", "mobile"}
                THEN createProjectFile(<<"README.md">>, Template("README"),
                                       config, dryRun, backend)
                ELSE backend
  IN IF directory.error # "" THEN directory
     ELSE Say(readme, "Project setup complete", outputDirOf(config))

\* ------------------------------------------------------------ processes
\* How a process ends: what it left on disk and in the log, the error it
\* ended with, whether handleFatalError reported it, and the exit code.
Outcome(res, fatal, exitCode) ==
  [fs |-> res.fs, log |-> res.log, error |-> res.error, fatal |-> fatal,
   exitCode |-> exitCode]

\* handleFatalError(error, context): reports and calls process.exit(1).
handleFatalError(res) == Outcome(res, TRUE, 1)

\* try { ... } catch (error) { handleFatalError(..., error) } around a
\* generation that ended as res.
caught(res) ==
  IF res.error # "" THEN handleFatalError(res) ELSE Outcome(res, FALSE, 0)

\* if (!directoryCreated) process.exit(1), for a main that ended as res.
exited(res) == Outcome(res, FALSE, IF res.error # "" THEN 1 ELSE 0)

\* context.outputDir = options.outputDir || process.env.PROJECT_ROOT || null;
\* <<>> is an option or a variable that is not set.
contextOutputDir(optionOutputDir, envProjectRoot) ==
  IF optionOutputDir # <<>> THEN optionOutputDir ELSE envProjectRoot

\* createProjectCommand(options), from the generation on: copies
\* context.outputDir into process.env.PROJECT_ROOT, calls generateProject, and
\* hands any error to handleFatalError.
createProjectCommand(impl, config, dryRun, outputDir, f) ==
  caught(generateProjectWith(impl, config, dryRun, f))

\* The process of the single-file program: process.exit(1) when main could
\* not make the project directory.
mainProcess(config, dryRun, overwrite, f) ==
  exited(main(config, dryRun, overwrite, f))

\* ------------------------------------------------------ the create workflow
\* A question of inquirer: its name and its `when`.
Question(name, when) == [name |-> name, when |-> when]

commonQuestions == <<Question("apiType", "backendOrAuthenticationOrCrud")>>

frontendQuestions ==
  <<Question("features.authentication", "always"),
    Question("features.userProfiles", "authentication"),
    Question("features.userSettings", "authentication"),
    Question("features.responsiveLayout", "always"),
    Question("features.crudSetup", "always"),
    Question("stateManagement", "always"),
    Question("themeToggle", "always")>>

backendQuestions ==
  <<Question("backend.database", "always"),
    Question("backend.roleBasedAuth", "authenticationOrBackend"),
    Question("backend.jwtSetup", "authenticationOrBackend"),
    Question("backend.apiVersioning", "always")>>

\* What the user would answer to each question of promptForFeatures, were it
\* asked: the choices are the values the question offers.
Sheet(au, up, us, rl, cr, sm, th, api, db, rba, jwt, av) ==
  ("features.authentication" :> au) @@ ("features.userProfiles" :> up) @@
  ("features.userSettings" :> us) @@ ("features.responsiveLayout" :> rl) @@
  ("features.crudSetup" :> cr) @@ ("stateManagement" :> sm) @@
  ("themeToggle" :> th) @@ ("apiType" :> api) @@ ("backend.database" :> db) @@
  ("backend.roleBasedAuth" :> rba) @@ ("backend.jwtSetup" :> jwt) @@
  ("backend.apiVersioning" :> av)

StateManagementChoices == {"redux", "context"}
ApiTypeChoices == {"rest", "graphql"}
DatabaseChoices == {"mongodb", "postgresql"}

\* answers.features?.x of the answers one prompt call has collected.
Truthy(collected, sheet, name) == name \in collected /\ sheet[name]

\* The `when` of a question, on the answers collected so far by the prompt
\* call the question is part of.
when(question, projectType, collected, sheet) ==
  CASE question.when = "always" -> TRUE
    [] question.when = "authentication" ->
         Truthy(collected, sheet, "features.authentication")
    [] question.when = "backendOrAuthenticationOrCrud" ->
         \/ projectType = "backend"
         \/ Truthy(collected, sheet, "features.authentication")
         \/ Truthy(collected, sheet, "features.crudSetup")
    [] question.when = "authenticationOrBackend" ->
         \/ Truthy(collected, sheet, "features.authentication")
         \/ projectType = "backend"

\* inquirer.prompt(questions): asks in order each question whose `when`
\* holds; the result is the set of names that were answered (the answer to
\* name is sheet[name]).
RECURSIVE prompt(_, _, _, _, _)
prompt(questions, i, projectType, sheet, collected) ==
  IF i > Len(questions) THEN collected
  ELSE prompt(questions, i + 1, projectType, sheet,
              IF when(questions[i], projectType, collected, sheet)
              THEN collected \cup {questions[i].name}
              ELSE collected)

\* A faulty variant that asks every backend question of every project.
promptForFeaturesEveryBackendQuestion(projectType, sheet) ==
  prompt(frontendQuestions \o commonQuestions, 1, projectType, sheet, {})
    \cup {backendQuestions[i].name : i \in 1..Len(backendQuestions)}

\* promptForFeatures(projectType): the names answered.  The backend questions
\* of a web or mobile project are a prompt call of their own, which starts
\* from no answers.
promptForFeatures(projectType, sheet) ==
  IF projectType = "backend"
  THEN prompt(<<Question("features.authentication", "always")>>
                \o commonQuestions \o backendQuestions,
              1, projectType, sheet, {})
  ELSE LET responses == prompt(frontendQuestions \o commonQuestions, 1,
                               projectType, sheet, {})
       IN IF \/ Truthy(responses, sheet, "features.authentication")
             \/ Truthy(responses, sheet, "features.crudSetup")
          THEN responses \cup prompt(backendQuestions, 1, projectType, sheet,
                                     {})
          ELSE responses

\* featureSelections.x || d: the answer when x was answered and is truthy
\* (every choice offered is a non-empty string), d otherwise.
orFalse(responses, sheet, name) == name \in responses /\ sheet[name]

orDefault(responses, sheet, name, d) ==
  IF name \in responses THEN sheet[name] ELSE d

\* context.config of the branch that asks the questions.
promptedConfig(projectType, projectName, responses, sheet) ==
  [type |-> projectType, name |-> projectName,
   features |->
     [authentication |-> orFalse(responses, sheet, "features.authentication"),
      userProfiles |-> orFalse(responses, sheet, "features.userProfiles"),
      userSettings |-> orFalse(responses, sheet, "features.userSettings"),
      responsiveLayout |->
        orFalse(responses, sheet, "features.responsiveLayout"),
      crudSetup |-> orFalse(responses, sheet, "features.crudSetup")],
   stateManagement |-> orDefault(responses, sheet, "stateManagement", "redux"),
   themeToggle |-> orFalse(responses, sheet, "themeToggle"),
   apiType |-> orDefault(responses, sheet, "apiType", "rest"),
   backend |->
     [database |-> orDefault(responses, sheet, "backend.database", "mongodb"),
      roleBasedAuth |-> orFalse(responses, sheet, "backend.roleBasedAuth"),
      jwtSetup |-> orFalse(responses, sheet, "backend.jwtSetup"),
      apiVersioning |-> orFalse(responses, sheet, "backend.apiVersioning")]]

\* { ...selectedBlueprint.config, name: projectName }
blueprintConfig(config, projectName) ==
  [type |-> config.type, name |-> projectName, features |-> config.features,
   stateManagement |-> config.stateManagement,
   themeToggle |-> config.themeToggle, apiType |-> config.apiType,
   backend |-> config.backend]

\* The config literal of the blueprint that the workflow saves.
savedConfig(config) ==
  [type |-> config.type, features |-> config.features,
   stateManagement |-> config.stateManagement,
   themeToggle |-> config.themeToggle, apiType |-> config.apiType,
   backend |-> config.backend]

\* The description offered for the blueprint.
defaultDescription(config) ==
  IF config.type = "web" THEN "Web project with custom configuration"
  ELSE IF config.type = "mobile"
  THEN "Mobile project with custom configuration"
  ELSE "Backend project with custom configuration"

\* A faulty variant that saves the backend defaults.
savedBlueprintDefaultBackend(config, blueprintName) ==
  [Blueprint(blueprintName,
             [savedConfig(config) EXCEPT !.backend = NoConfig.backend])
     EXCEPT !.description = defaultDescription(config)]

\* The blueprint the workflow saves, for a user who keeps the description.
savedBlueprint(config, blueprintName) ==
  [Blueprint(blueprintName, savedConfig(config))
     EXCEPT !.description = defaultDescription(config)]

\* What a create process leaves: the store and the filesystem, the questions
\* it asked, whether a blueprint was used and which, the config it resolved,
\* whether it generated and saved, and whether handleFatalError ended it.
Created(st, f, dryRun, asked, selected, config, generated, saved, fatal) ==
  [st |-> st, fs |-> f, dryRun |-> dryRun, asked |-> asked,
   useBlueprint |-> "blueprint" \in asked,
   selectedBlueprint |-> selected, config |-> config,
   generated |-> generated, saved |-> saved, fatal |-> fatal]

NoProjectConfig == blueprintConfig(NoConfig, "")

\* validateBlueprintName(input, existingBlueprints) accepts the name.
validateBlueprintName(input, existingBlueprints) ==
  /\ input # ""
  /\ \A i \in 1..Len(existingBlueprints) : existingBlueprints[i].name # input

\* The last step: the offer to save the config as a blueprint.  The name the
\* user enters is one validateBlueprintName accepts.
offerBlueprint(user, asked, config, generation, loaded) ==
  IF ~user.saveAsBlueprint
  THEN Created(loaded.st, generation.fs, user.dryRun,
               asked \cup {"saveAsBlueprint"}, NullItem, config, TRUE, FALSE,
               FALSE)
  ELSE IF loaded.threw \/ loaded.value.kind # "array"
  THEN Created(loaded.st, generation.fs, user.dryRun,
               asked \cup {"saveAsBlueprint"}, NullItem, config, TRUE, FALSE,
               TRUE)
  ELSE Created(saveBlueprint(savedBlueprint(config, user.blueprintName),
                             loaded.st).st,
               generation.fs, user.dryRun,
               asked \cup {"saveAsBlueprint", "blueprintName",
                           "blueprintDescription"},
               NullItem, config, TRUE, TRUE, FALSE)

\* From the summary on: displayFeatureSummary (which reads config.type of a
\* blueprint that has no config and throws), the confirmation, the
\* generation, and the offer to save.
confirmAndGenerate(user, st, f, asked, selectedBlueprint, config, generation) ==
  IF config.type = ""
  THEN Created(st, f, user.dryRun, asked, selectedBlueprint, config, FALSE,
               FALSE, TRUE)
  ELSE IF ~user.confirmGeneration
  THEN Created(st, f, user.dryRun, asked \cup {"confirmGeneration"},
               selectedBlueprint, config, FALSE, FALSE, FALSE)
  ELSE IF generation.fatal
  THEN Created(st, generation.fs, user.dryRun,
               asked \cup {"confirmGeneration"}, selectedBlueprint, config,
               FALSE, FALSE, TRUE)
  ELSE IF "blueprint" \in asked \/ user.dryRun
  THEN Created(st, generation.fs, user.dryRun,
               asked \cup {"confirmGeneration"}, selectedBlueprint, config,
               TRUE, FALSE, FALSE)
  ELSE offerBlueprint(user, asked \cup {"confirmGeneration"}, config,
                      generation, loadBlueprints(st))

\* The configuration step, on the blueprints loaded.
configure(user, f, loaded) ==
  IF loaded.threw
  THEN Created(loaded.st, f, user.dryRun, {}, NullItem, NoProjectConfig,
               FALSE, FALSE, TRUE)
  ELSE IF loaded.count > 0 /\ user.wantToUseBlueprint
  THEN confirmAndGenerate(
         user, loaded.st, f,
         {"wantToUseBlueprint", "blueprint", "projectName"},
         loaded.value.items[user.blueprint],
         blueprintConfig(loaded.value.items[user.blueprint].config,
                         user.projectName),
         createProjectCommand(
           "projectGenerator",
           blueprintConfig(loaded.value.items[user.blueprint].config,
                           user.projectName),
           user.dryRun, <<>>, f))
  ELSE confirmAndGenerate(
         user, loaded.st, f,
         (IF loaded.count > 0 THEN {"wantToUseBlueprint"} ELSE {})
           \cup {"projectType", "projectName"}
           \cup promptForFeatures(user.projectType, user.sheet),
         NullItem,
         promptedConfig(user.projectType, user.projectName,
                        promptForFeatures(user.projectType, user.sheet),
                        user.sheet),
         createProjectCommand(
           "projectGenerator",
           promptedConfig(user.projectType, user.projectName,
                          promptForFeatures(user.projectType, user.sheet),
                          user.sheet),
           user.dryRun, <<>>, f))

\* createProjectCommand(options) as a whole, for a user who answers as `user`
\* says.
createProject(user, st, f) ==
  configure(user, f,
            createProjectCommandBlueprints(user.wantToUseBlueprint, st))

\* -------------------------------------------- generator: state and actions
ProjectNames == {"app"}

\* The configs a run is given.  The fields that no directory rule, file rule
\* or environment-file rule reads are held at one value.
Configs ==
  {[type |-> t, name |-> n,
    features |-> [authentication |-> au, userProfiles |-> up,
                  userSettings |-> FALSE, responsiveLayout |-> FALSE,
                  crudSetup |-> cr],
    stateManagement |-> sm, themeToggle |-> th, apiType |-> "rest",
    backend |-> [database |-> db, roleBasedAuth |-> FALSE,
                 jwtSetup |-> FALSE, apiVersioning |-> av]] :
     t \in Types, n \in ProjectNames, au \in BOOLEAN, up \in BOOLEAN,
     cr \in BOOLEAN, sm \in StateManagements, th \in BOOLEAN,
     db \in Databases, av \in BOOLEAN}

\* The filesystems a run can start on: no templates directory, an empty one,
\* and one that holds the project directory with a file of an earlier run.
Fs(dirs, files) == [dirs |-> dirs, files |-> files, denied |-> {}]

\* Paths of a project at which the operating system fails the creation: a
\* directory of the web and mobile plans, and a file of every plan of
\* projectGenerator.ts (the first failure of a backend plan).
DeniedPaths(n) ==
  {join(DEFAULT_TEMPLATES_DIR, <<n>> \o p) :
     p \in {<<"src", "lib">>, <<"package.json">>}}

InitialFilesystems ==
  {Fs(Prefixes(HomeDir), {}),
   Fs(Prefixes(DEFAULT_TEMPLATES_DIR), {})} \cup
  {Fs(Prefixes(join(DEFAULT_TEMPLATES_DIR, <<n>>)),
      {Entry(join(DEFAULT_TEMPLATES_DIR, <<n, "README.md">>),
             Template("earlier run"))}) : n \in ProjectNames} \cup
  {[Fs(Prefixes(DEFAULT_TEMPLATES_DIR), {}) EXCEPT !.denied = DeniedPaths(n)] :
     n \in ProjectNames}

\* The generator call that produced the current filesystem: which copy ran
\* (impl), its arguments, the filesystem before it (pre), its log and error.
\* config is the config of this process from its start.
\* outputDir is the output root the user asked for (<<>>: none), overwrite
\* the answer to the overwrite question, fatal and exitCode how the process
\* ended.
Run(op, impl, config, dryRun, outputDir, overwrite, pre, res) ==
  [op |-> op, impl |-> impl, config |-> config, dryRun |-> dryRun,
   outputDir |-> outputDir, overwrite |-> overwrite,
   pre |-> pre, log |-> res.log, error |-> res.error, fatal |-> res.fatal,
   exitCode |-> res.exitCode]

NoRun(config) ==
  Run("none", "", config, FALSE, <<>>, FALSE, Fs({}, {}),
      Outcome(Progress(Fs({}, {}), <<>>, ""), FALSE, 0))

GeneratorIdle == run.op = "none"

\* The output roots a user can ask for with --output-dir or PROJECT_ROOT.
OutputDirOptions == {<<>>, <<"out">>}
ProjectRootValues == {<<>>, <<"work">>}

Generated(impl, dryRun, outputDir, overwrite, res) ==
  /\ fs' = res.fs
  /\ run' = Run("generateProject", impl, run.config, dryRun, outputDir,
                overwrite, fs, res)
  /\ UNCHANGED <<store, last, context, procs>>

\* create [--dry-run] [--output-dir <path>] of index.ts, which generates with
\* projectGenerator.ts.
GenerateProject ==
  /\ GeneratorIdle
  /\ \E dryRun \in BOOLEAN, optionOutputDir \in OutputDirOptions,
        envProjectRoot \in ProjectRootValues :
       LET outputDir == contextOutputDir(optionOutputDir, envProjectRoot)
       IN Generated("projectGenerator", dryRun, outputDir, FALSE,
                    createProjectCommand("projectGenerator", run.config,
                                         dryRun, outputDir, fs))

GenerateProjectCopy ==
  /\ GeneratorIdle
  /\ \E dryRun \in BOOLEAN :
       Generated("errorHandler", dryRun, <<>>, FALSE,
                 createProjectCommand("errorHandler", run.config, dryRun,
                                      <<>>, fs))

GenerateProjectInline ==
  /\ GeneratorIdle
  /\ \E dryRun \in BOOLEAN :
       Generated("inline", dryRun, <<>>, FALSE,
                 createProjectCommand("inline", run.config, dryRun, <<>>, fs))

\* The single-file program: its project types are web and mobile.  The user
\* answers the overwrite question only when it is asked.
GenerateProjectMain ==
  /\ GeneratorIdle
  /\ run.config.type \in {"web", "mobile"}
  /\ \E dryRun \in BOOLEAN,
        overwrite \in (IF existsSync(fs, outputDirOf(run.config))
                       THEN BOOLEAN ELSE {FALSE}) :
       Generated("main", dryRun, <<>>, overwrite,
                 mainProcess(run.config, dryRun, overwrite, fs))

\* The process ends; the next one is given the same config.
ExitGenerator ==
  /\ ~GeneratorIdle
  /\ run' = NoRun(run.config)
  /\ UNCHANGED <<store, last, fs, context, procs>>

\* ------------------------------------------------ store: state and actions
RECURSIVE SeqsUpTo(_, _)
SeqsUpTo(S, n) ==
  IF n = 0 THEN {<<>>}
  ELSE LET shorter == SeqsUpTo(S, n - 1)
       IN shorter \cup {Append(q, x) : q \in shorter, x \in S}

\* Texts an import file can hold.
ImportFiles ==
  {GarbageText, JSONstringify(ObjectValue)} \cup
  {JSONstringify(Array(q)) :
     q \in SeqsUpTo(Blueprints \cup InvalidRecords, MaxImport)}

\* A store the process may not write (a read-only home directory or
\* document), and one it may neither read nor write (a document of another
\* owner).
ReadOnly(st) == [st EXCEPT !.writable = FALSE]
NoAccess(st) == [st EXCEPT !.writable = FALSE, !.readable = FALSE]

\* Stores a first command can find: nothing, the directory alone, and a
\* document that is not JSON, not an array, empty, or holds a null element;
\* and the stores the operating system denies access to.
InitialStores ==
  {StoreState(FALSE, FALSE, GarbageText), StoreState(TRUE, FALSE, GarbageText),
   StoreState(TRUE, TRUE, GarbageText),
   StoreState(TRUE, TRUE, JSONstringify(ObjectValue)),
   StoreState(TRUE, TRUE, JSONstringify(NullValue)),
   StoreState(TRUE, TRUE, JSONstringify(EmptyArray)),
   StoreState(TRUE, TRUE, JSONstringify(Array(<<NullItem>>)))} \cup
  {ReadOnly(StoreState(FALSE, FALSE, GarbageText)),
   ReadOnly(StoreState(TRUE, FALSE, GarbageText)),
   ReadOnly(StoreState(TRUE, TRUE, JSONstringify(Array(
     <<Blueprint("alpha", BlueprintConfigWeb)>>)))),
   NoAccess(StoreState(TRUE, TRUE, JSONstringify(Array(
     <<Blueprint("alpha", BlueprintConfigWeb)>>))))}

\* The call that produced the current store: its operation and arguments, the
\* store before it (pre), its Result fields, and whether it repeats the call
\* before it (the same import file and overwrite flag).
Call(op, name, blueprint, fileText, overwrite, pre, res, repeat) ==
  [op |-> op, name |-> name, blueprint |-> blueprint, fileText |-> fileText,
   overwrite |-> overwrite, pre |-> pre, threw |-> res.threw, ok |-> res.ok,
   count |-> res.count, item |-> res.item, value |-> res.value,
   repeat |-> repeat]

NoCall ==
  Call("none", "", NullItem, GarbageText, FALSE,
       StoreState(FALSE, FALSE, GarbageText),
       Result(StoreState(FALSE, FALSE, GarbageText), FALSE, FALSE, 0,
              NullItem, NullValue), FALSE)

\* The items of the document as loadBlueprints would return them.
StoreItems(st) ==
  IF st.fileExists /\ st.text.valid /\ st.text.value.kind = "array"
  THEN st.text.value.items ELSE <<>>

\* One CLI process runs one command: its result stays observable in last
\* until the process exits (Exit), and then the next command starts.
Idle == last.op = "none"

Finish(op, name, blueprint, fileText, overwrite, res) ==
  /\ Len(StoreItems(res.st)) <= MaxStore
  /\ store' = res.st
  /\ last' = Call(op, name, blueprint, fileText, overwrite, store, res,
                  /\ op = "importBlueprints"
                  /\ last.op = op
                  /\ last.fileText = fileText
                  /\ last.overwrite = overwrite)
  /\ UNCHANGED <<fs, run, context, procs>>

EnsureBlueprintDir ==
  /\ Idle
  /\ Finish("ensureBlueprintDir", "", NullItem, GarbageText, FALSE,
            Result(ensureBlueprintDir(store), ensureBlueprintDirThrows(store),
                   ~ensureBlueprintDirThrows(store), 0, NullItem, NullValue))

LoadBlueprints ==
  /\ Idle
  /\ Finish("loadBlueprints", "", NullItem, GarbageText, FALSE,
            loadBlueprints(store))

SaveBlueprint ==
  /\ Idle
  /\ \E b \in Blueprints :
       Finish("saveBlueprint", b.name, b, GarbageText, FALSE,
              saveBlueprint(b, store))

GetBlueprintByName ==
  /\ Idle
  /\ \E name \in BlueprintNames :
       Finish("getBlueprintByName", name, NullItem, GarbageText, FALSE,
              getBlueprintByName(name, store))

UpdateBlueprint ==
  /\ Idle
  /\ \E name \in BlueprintNames, b \in Blueprints :
       Finish("updateBlueprint", name, b, GarbageText, FALSE,
              updateBlueprint(name, b, store))

DeleteBlueprint ==
  /\ Idle
  /\ \E name \in BlueprintNames :
       Finish("deleteBlueprint", name, NullItem, GarbageText, FALSE,
              deleteBlueprint(name, store))

DeleteBlueprintCommand ==
  /\ Idle
  /\ \E name \in BlueprintNames :
       Finish("deleteBlueprintCommand", name, NullItem, GarbageText, FALSE,
              deleteBlueprintCommand(name, store))

ListBlueprintsCommand ==
  /\ Idle
  /\ Finish("listBlueprintsCommand", "", NullItem, GarbageText, FALSE,
            listBlueprintsCommand(store))

\* overwrite holds the user's answer to "use an existing blueprint?".
CreateProjectCommandBlueprints ==
  /\ Idle
  /\ \E wantToUseBlueprint \in BOOLEAN :
       Finish("createProjectCommand", "", NullItem, GarbageText,
              wantToUseBlueprint,
              createProjectCommandBlueprints(wantToUseBlueprint, store))

ExportBlueprints ==
  /\ Idle
  /\ LET res == exportBlueprints(store)
     IN Finish("exportBlueprints", "", NullItem, JSONstringify(res.value),
               FALSE, res)

\* The file imported is any text when the process starts with the import, the
\* file just written when it follows an export, and the same file with the
\* same flag when it follows an import.
ImportBlueprints ==
  \E fileText \in (IF Idle THEN ImportFiles ELSE {last.fileText}),
     overwrite \in (IF last.op = "importBlueprints" THEN {last.overwrite}
                    ELSE BOOLEAN) :
    /\ last.op \in {"none", "exportBlueprints", "importBlueprints"}
    /\ Finish("importBlueprints", "", NullItem, fileText, overwrite,
              importBlueprints(fileText, overwrite, store))

Exit ==
  /\ ~Idle
  /\ last' = NoCall
  /\ UNCHANGED <<store, fs, run, context, procs>>

\* --------------------------------------------- create: state and actions
\* The sheets of the users: the user answers the two profile questions alike
\* and the two layout questions alike.
AnswerSheets ==
  {Sheet(au, up, up, rl, cr, sm, rl, api, db, rba, jwt, av) :
     au \in BOOLEAN, up \in BOOLEAN, rl \in BOOLEAN, cr \in BOOLEAN,
     sm \in StateManagementChoices, api \in ApiTypeChoices,
     db \in DatabaseChoices, rba \in BOOLEAN, jwt \in BOOLEAN,
     av \in BOOLEAN}

\* The sheets of the runs that write answer every confirm alike, and every
\* list by its first or by its second choice.
UniformSheets ==
  {Sheet(FALSE, FALSE, FALSE, FALSE, FALSE, "redux", FALSE, "rest", "mongodb",
         FALSE, FALSE, FALSE),
   Sheet(TRUE, TRUE, TRUE, TRUE, TRUE, "context", TRUE, "graphql",
         "postgresql", TRUE, TRUE, TRUE)}

\* A question that is not asked has no answer: its place on the sheet holds
\* the place of the first sheet.
Unanswered == CHOOSE sheet \in UniformSheets : ~sheet["themeToggle"]

OnlyAnswers(projectType, sheet) ==
  \A name \in DOMAIN sheet \ promptForFeatures(projectType, sheet) :
    sheet[name] = Unanswered[name]

Uniform(projectType, sheet) ==
  \E uniform \in UniformSheets :
    \A name \in promptForFeatures(projectType, sheet) :
      sheet[name] = uniform[name]

\* The answers of one user to the whole workflow.
User(dryRun, want, blueprint, type, sheet, name, confirm, save, saveAs) ==
  [dryRun |-> dryRun, wantToUseBlueprint |-> want, blueprint |-> blueprint,
   projectType |-> type, sheet |-> sheet, projectName |-> name,
   confirmGeneration |-> confirm, saveAsBlueprint |-> save,
   blueprintName |-> saveAs]

\* Stores a create command can find: nothing, a blueprint saved earlier, and
\* nothing where nothing may be written.
CreateStores ==
  {StoreState(FALSE, FALSE, GarbageText),
   StoreState(TRUE, TRUE, JSONstringify(Array(
     <<Blueprint("beta", BlueprintConfigBackend)>>))),
   ReadOnly(StoreState(FALSE, FALSE, GarbageText))}

\* The create process that produced the current store and filesystem: the
\* store before it (pre) and what Created records.
Workflow(op, pre, created) ==
  [op |-> op, pre |-> pre, dryRun |-> created.dryRun, asked |-> created.asked,
   useBlueprint |-> created.useBlueprint,
   selectedBlueprint |-> created.selectedBlueprint,
   config |-> created.config, generated |-> created.generated,
   saved |-> created.saved, fatal |-> created.fatal]

NoContext ==
  Workflow("none", StoreState(FALSE, FALSE, GarbageText),
           Created(StoreState(FALSE, FALSE, GarbageText), Fs({}, {}), FALSE,
                   {}, NullItem, NoProjectConfig, FALSE, FALSE, FALSE))

CreateIdle == context.op = "none"

\* The blueprint name entered is one validateBlueprintName accepts.
Ended(user, created) ==
  /\ created.saved
       => validateBlueprintName(user.blueprintName, StoreItems(store))
  /\ store' = created.st
  /\ fs' = created.fs
  /\ context' = Workflow("createProjectCommand", store, created)
  /\ UNCHANGED <<last, run, procs>>

\* create [--dry-run], answered by a user who configures the project.  The
\* save question has an answer only in a run that reaches it.
CreateFromQuestions ==
  /\ CreateIdle
  /\ \E dryRun \in BOOLEAN, projectType \in Types,
        projectName \in ProjectNames, confirmGeneration \in BOOLEAN :
       \E sheet \in AnswerSheets,
          saveAsBlueprint \in (IF dryRun \/ ~confirmGeneration THEN {FALSE}
                               ELSE BOOLEAN) :
         \E blueprintName \in (IF saveAsBlueprint THEN BlueprintNames
                               ELSE {""}) :
           /\ OnlyAnswers(projectType, sheet)
           /\ (~dryRun /\ confirmGeneration) => Uniform(projectType, sheet)
           /\ Ended(User(dryRun, FALSE, 1, projectType, sheet, projectName,
                         confirmGeneration, saveAsBlueprint, blueprintName),
                    createProject(User(dryRun, FALSE, 1, projectType, sheet,
                                       projectName, confirmGeneration,
                                       saveAsBlueprint, blueprintName),
                                  store, fs))

\* create [--dry-run], answered by a user who picks a blueprint.
CreateFromBlueprint ==
  /\ CreateIdle
  /\ \E dryRun \in BOOLEAN, blueprint \in 1..Len(StoreItems(store)),
        projectName \in ProjectNames, confirmGeneration \in BOOLEAN :
       Ended(User(dryRun, TRUE, blueprint, "web", Unanswered, projectName,
                  confirmGeneration, FALSE, ""),
             createProject(User(dryRun, TRUE, blueprint, "web", Unanswered,
                                projectName, confirmGeneration, FALSE, ""),
                           store, fs))

ExitCreate ==
  /\ ~CreateIdle
  /\ context' = NoContext
  /\ UNCHANGED <<store, last, fs, run, procs>>

\* ---------------------------------- concurrent saves: state and actions
\* Two CLI processes, each in one call of saveBlueprint on the same store.
\* The steps of the call are its file operations: the existsSync of
\* ensureBlueprintDir (checked), its mkdirSync and writeFileSync (ensured),
\* the readFileSync of loadBlueprints (read), and the writeFileSync of
\* saveBlueprint (done).  The ensureBlueprintDir inside loadBlueprints finds
\* the document there, since no process removes it.  Each file operation is
\* atomic.
Processes == {1, 2}

\* A process: where it is, the blueprint it saves, whether it found the
\* document missing, the value it loaded, and whether the other process had
\* finished when it started.
Process(pc, blueprint, missing, blueprints, after) ==
  [pc |-> pc, blueprint |-> blueprint, missing |-> missing,
   blueprints |-> blueprints, after |-> after]

NoProcs ==
  [p \in Processes |-> Process("none", NullItem, FALSE, NullValue, FALSE)]

\* Stores the two processes can find.
RaceStores ==
  {StoreState(FALSE, FALSE, GarbageText),
   StoreState(TRUE, TRUE, JSONstringify(EmptyArray)),
   StoreState(TRUE, TRUE, JSONstringify(Array(
     <<Blueprint("beta", BlueprintConfigBackend)>>))),
   StoreState(TRUE, TRUE, GarbageText)}

Other(p) == CHOOSE q \in Processes : q # p

Step(p, proc, st) ==
  /\ procs' = [procs EXCEPT ![p] = proc]
  /\ store' = st
  /\ UNCHANGED <<last, fs, run, context>>

\* if (!fs.existsSync(BLUEPRINT_FILE))
ExistsSync ==
  \E p \in Processes :
    /\ procs[p].pc = "start"
    /\ Step(p, [procs[p] EXCEPT !.pc = "checked",
                                !.missing = ~store.fileExists,
                                !.after = procs[Other(p)].pc = "done"],
            store)

\* fs.mkdirSync(BLUEPRINT_DIR) and fs.writeFileSync(BLUEPRINT_FILE, "[]"),
\* when the document was found missing.
WriteEmptyDocument ==
  \E p \in Processes :
    /\ procs[p].pc = "checked"
    /\ Step(p, [procs[p] EXCEPT !.pc = "ensured"],
            IF procs[p].missing
            THEN writeBlueprintFile([store EXCEPT !.dirExists = TRUE],
                                    JSONstringify(EmptyArray))
            ELSE store)

\* const blueprints = loadBlueprints();
ReadDocument ==
  \E p \in Processes :
    /\ procs[p].pc = "ensured"
    /\ Step(p, [procs[p] EXCEPT !.pc = "read",
                                !.blueprints = loadBlueprints(store).value],
            store)

\* A faulty variant that writes the new blueprint alone.
pushAndWriteAlone(blueprints, blueprint, st) ==
  writeBlueprintFile(st, JSONstringify(Array(<<blueprint>>)))

\* blueprints.push(blueprint); fs.writeFileSync(BLUEPRINT_FILE, ...): push is
\* not a function of a value that is no array, and the catch writes nothing.
pushAndWrite(blueprints, blueprint, st) ==
  IF blueprints.kind # "array" THEN st
  ELSE writeBlueprintFile(st, JSONstringify(Array(
         Append(blueprints.items, blueprint))))

WriteDocument ==
  \E p \in Processes :
    /\ procs[p].pc = "read"
    /\ Step(p, [procs[p] EXCEPT !.pc = "done"],
            pushAndWrite(procs[p].blueprints, procs[p].blueprint, store))

\* ------------------------------------------------------ specifications
InitStore ==
  /\ store \in InitialStores
  /\ last = NoCall
  /\ fs = Fs(Prefixes(HomeDir), {})
  /\ run = NoRun(CHOOSE c \in Configs : TRUE)
  /\ context = NoContext
  /\ procs = NoProcs

NextStore ==
  \/ EnsureBlueprintDir
  \/ LoadBlueprints
  \/ SaveBlueprint
  \/ GetBlueprintByName
  \/ UpdateBlueprint
  \/ DeleteBlueprint
  \/ DeleteBlueprintCommand
  \/ ListBlueprintsCommand
  \/ CreateProjectCommandBlueprints
  \/ ExportBlueprints
  \/ ImportBlueprints
  \/ Exit

SpecStore == InitStore /\ [][NextStore]_vars

InitGen ==
  /\ store = StoreState(FALSE, FALSE, GarbageText)
  /\ last = NoCall
  /\ fs \in InitialFilesystems
  /\ \E config \in Configs : run = NoRun(config)
  /\ context = NoContext
  /\ procs = NoProcs

NextGen ==
  \/ GenerateProject
  \/ GenerateProjectCopy
  \/ GenerateProjectInline
  \/ GenerateProjectMain
  \/ ExitGenerator

SpecGen == InitGen /\ [][NextGen]_vars

InitCreate ==
  /\ store \in CreateStores
  /\ last = NoCall
  /\ fs = Fs(Prefixes(HomeDir), {})
  /\ run = NoRun(CHOOSE c \in Configs : TRUE)
  /\ context = NoContext
  /\ procs = NoProcs

NextCreate ==
  \/ CreateFromQuestions
  \/ CreateFromBlueprint
  \/ ExitCreate

SpecCreate == InitCreate /\ [][NextCreate]_vars

\* The two processes save two different blueprints.
InitRace ==
  /\ store \in RaceStores
  /\ last = NoCall
  /\ fs = Fs(Prefixes(HomeDir), {})
  /\ run = NoRun(CHOOSE c \in Configs : TRUE)
  /\ context = NoContext
  /\ \E b1 \in Blueprints :
     \E b2 \in Blueprints \ {b1} :
       procs = [p \in Processes |->
                  Process("start", IF p = 1 THEN b1 ELSE b2, FALSE, NullValue,
                          FALSE)]

NextRace ==
  \/ ExistsSync
  \/ WriteEmptyDocument
  \/ ReadDocument
  \/ WriteDocument

SpecRace == InitRace /\ [][NextRace]_vars

\* ------------------------------------------ claims on the create workflow
\* The questions that configure a project, the project name apart.
ConfigurationQuestions == {"projectType"} \cup DOMAIN Unanswered

\* A create process that resolved its config from the answers.
Prompted ==
  context.op = "createProjectCommand" /\ "projectType" \in context.asked

\* C23: a create process that uses a blueprint asks no configuration question
\* but the project name, and its config is the blueprint's stored config in
\* every field, with the name entered; and the blueprint a create process
\* saves holds the config of that process in every field but the name, so
\* that saving and reusing gives the config back.
C23_BlueprintGivesConfigBack ==
  /\ (context.op = "createProjectCommand" /\ context.useBlueprint)
       => /\ context.asked \cap ConfigurationQuestions = {}
          /\ "projectName" \in context.asked
          /\ context.config.name \in ProjectNames
          /\ context.config
               = blueprintConfig(context.selectedBlueprint.config,
                                 context.config.name)
          /\ context.selectedBlueprint.config
               = [f \in DOMAIN context.config \ {"name"}
                    |-> context.config[f]]
  /\ (context.op = "createProjectCommand" /\ context.saved)
       => LET items == StoreItems(store)
          IN /\ Len(items) = Len(StoreItems(context.pre)) + 1
             /\ [f \in DOMAIN context.config \ {"name"}
                   |-> context.config[f]] = items[Len(items)].config

\* A blueprint that an earlier create process saved is used.
C23_Witness ==
  /\ context.op = "createProjectCommand"
  /\ context.useBlueprint
  /\ context.selectedBlueprint.description
       = "Web project with custom configuration"
  /\ context.config.type = "web"
  /\ context.config.features.crudSetup
  /\ context.config.backend.apiVersioning
  /\ context.config.name \in ProjectNames

\* C24: the config resolved from the answers has every field in its declared
\* domain.
C24_ResolvedConfigInDomain ==
  Prompted
    => /\ context.config.type \in Types
       /\ context.config.stateManagement \in StateManagements
       /\ context.config.apiType \in ApiTypes
       /\ context.config.backend.database \in Databases
       /\ \A f \in DOMAIN context.config.features :
            context.config.features[f] \in BOOLEAN
       /\ context.config.themeToggle \in BOOLEAN
       /\ \A f \in {"roleBasedAuth", "jwtSetup", "apiVersioning"} :
            context.config.backend[f] \in BOOLEAN

\* The names of the backend sub-questions.
BackendQuestionNames ==
  {backendQuestions[i].name : i \in 1..Len(backendQuestions)}

\* C25: a backend sub-question is asked only of a backend project or after
\* authentication or crudSetup was answered yes; roleBasedAuth and jwtSetup
\* only of a backend project or after authentication was answered yes; and a
\* backend field whose question is not asked has its default.
C25_BackendQuestionsAreGated ==
  Prompted
    => /\ context.asked \cap BackendQuestionNames # {}
            => \/ context.config.type = "backend"
               \/ context.config.features.authentication
               \/ context.config.features.crudSetup
       /\ context.asked \cap {"backend.roleBasedAuth", "backend.jwtSetup"}
            # {}
            => \/ context.config.type = "backend"
               \/ context.config.features.authentication
       /\ "backend.database" \notin context.asked
            => context.config.backend.database = "mongodb"
       /\ "backend.roleBasedAuth" \notin context.asked
            => ~context.config.backend.roleBasedAuth
       /\ "backend.jwtSetup" \notin context.asked
            => ~context.config.backend.jwtSetup
       /\ "backend.apiVersioning" \notin context.asked
            => ~context.config.backend.apiVersioning

\* A web project with crudSetup alone: the database and the versioning are
\* asked, the two authentication questions are not.
C25_Witness ==
  /\ Prompted
  /\ context.config.type = "web"
  /\ ~context.config.features.authentication
  /\ context.config.features.crudSetup
  /\ context.asked \cap BackendQuestionNames
       = {"backend.database", "backend.apiVersioning"}
  /\ context.config.backend.apiVersioning
  /\ ~context.config.backend.jwtSetup

\* C29: a create process with --dry-run leaves the blueprint store as it
\* found it (directory, document and text) and does not offer to save.
C29_DryRunLeavesStore ==
  (context.op = "createProjectCommand" /\ context.dryRun)
    => /\ store = context.pre
       /\ "saveAsBlueprint" \notin context.asked
       /\ ~context.saved

\* ------------------------------------------- claims on concurrent saves
BothDone == \A p \in Processes : procs[p].pc = "done"

\* The store holds blueprint b.
Saved(b) ==
  \E i \in 1..Len(StoreItems(store)) : StoreItems(store)[i] = b

\* The value process p loaded holds blueprint b.
Loaded(p, b) ==
  /\ procs[p].blueprints.kind = "array"
  /\ \E i \in 1..Len(procs[p].blueprints.items) :
       procs[p].blueprints.items[i] = b

\* C26: saveBlueprint is a read-modify-write without a lock.  Two saves that
\* do not overlap (one process starts after the other has finished) on a
\* store whose document is an array or is missing keep both blueprints, the
\* later one after the earlier one; two saves that have each read an array
\* without the other's blueprint leave the array one of them read with its
\* blueprint appended, and the other's blueprint is lost.
C26_UnlockedReadModifyWrite ==
  \A p \in Processes :
    /\ (BothDone /\ procs[p].after /\ procs[p].blueprints.kind = "array")
         => LET items == StoreItems(store)
            IN /\ Len(items) >= 2
               /\ items[Len(items)] = procs[p].blueprint
               /\ items[Len(items) - 1] = procs[Other(p)].blueprint
    /\ (/\ BothDone
        /\ \A q \in Processes :
             /\ procs[q].blueprints.kind = "array"
             /\ ~Loaded(q, procs[Other(q)].blueprint))
         => \E q \in Processes :
              /\ StoreItems(store)
                   = Append(procs[q].blueprints.items, procs[q].blueprint)
              /\ ~Saved(procs[Other(q)].blueprint)

\* C26: a lost update.  Both processes have read the document before either
\* has written it, both have finished, and the blueprint of one is missing.
C26_Witness ==
  /\ BothDone
  /\ \A p \in Processes : ~procs[p].after
  /\ \A p \in Processes : procs[p].blueprints = EmptyArray
  /\ \E p \in Processes :
       /\ ~Saved(procs[p].blueprint)
       /\ Saved(procs[Other(p)].blueprint)
       /\ Len(StoreItems(store)) = 1

\* --------------------------------------------- claims on the generator
\* The run of projectGenerator.ts got as far as planning: the templates
\* directory and the project directory were made.
ReachedPlanning ==
  /\ run.op = "generateProject"
  /\ run.impl = "projectGenerator"
  /\ templatesDirectory(run.impl, run.dryRun, run.pre).error = ""
  /\ ~projectDirectoryExists(run.pre,
                             join(DEFAULT_TEMPLATES_DIR, <<run.config.name>>),
                             run.dryRun)
  /\ projectDirectory(run.impl, run.config, run.dryRun, run.pre).error = ""

\* C28: a real run on a destination that did not exist, where the operating
\* system denies nothing, never fails a write for a missing parent directory.
C28_ParentDirectoryExistsAtWrite ==
  (/\ run.op = "generateProject"
   /\ run.impl \in {"projectGenerator", "inline"}
   /\ ~run.dryRun
   /\ run.pre.denied = {}
   /\ ~existsSync(run.pre, join(DEFAULT_TEMPLATES_DIR, <<run.config.name>>)))
    => run.error # "ENOENT"

\* Every directory of the list has its parent in the list, or is directly
\* under the project root.
PrefixClosed(directories) ==
  \A i \in 1..Len(directories) :
    \/ Len(directories[i]) = 1
    \/ \E j \in 1..Len(directories) :
         directories[j] = dirname(directories[i])

\* The directories the inline generator creates for a config.
InlineDirectories(config) ==
  (IF config.type = "web" THEN TEMPLATE_DIRS.web.root
   ELSE IF config.type = "mobile" THEN TEMPLATE_DIRS.mobile.root
   ELSE TEMPLATE_DIRS.backend.root) \o
  (IF config.type = "web" /\ config.features.authentication
   THEN WebAuthDirectories ELSE <<>>)

\* C30: the directory list planned for the config of the process is
\* prefix-closed, in getProjectDirectories and in the inline generator.
C30_PlannedDirectoriesArePrefixClosed ==
  /\ PrefixClosed(getProjectDirectories(run.config))
  /\ PrefixClosed(InlineDirectories(run.config))

\* C27: in a real run the plan is computed before the first write: when
\* createProjectStructure computes the directories and the files, the
\* filesystem is still the one the run started on.
C27_PlanBeforeFirstWrite ==
  (ReachedPlanning /\ ~run.dryRun)
    => projectDirectory(run.impl, run.config, run.dryRun, run.pre).fs
         = run.pre

\* The files the copy of the generator that ran plans for a config.
PlannedFiles(impl, config) ==
  IF impl = "errorHandler" THEN getProjectFilesCopy(config)
  ELSE getProjectFiles(config)

\* The text planned for path p.
PlannedText(files, p) ==
  files[CHOOSE i \in 1..Len(files) : files[i].path = p].content

\* The values of the JWT_SECRET=... lines of an environment file.
JwtSecrets(text) ==
  {text[i][2] : i \in {k \in 1..Len(text) : text[k][1] = "JWT_SECRET="}}

\* The text has the literal as one of its pieces.
HasLiteral(text, literal) ==
  \E i \in 1..Len(text) : \E j \in 1..Len(text[i]) : text[i][j] = literal

\* The directory of the project a run generates.
ProjectPath == join(DEFAULT_TEMPLATES_DIR, <<run.config.name>>)

\* The text of the file at path p ("no file" when there is none).
FileText(f, p) ==
  IF IsFile(f, p) THEN (CHOOSE file \in f.files : file.path = p).content
  ELSE << <<"no file">> >>

\* The text mounts the routes at the path: app.use('<path>', ...).
Mounts(text, mountPath) ==
  \E i \in 1..Len(text) :
    Len(text[i]) >= 2 /\ text[i][1] = "app.use(" /\ text[i][2] = mountPath

\* A real run that generated its project.
RealRunDone ==
  run.op = "generateProject" /\ ~run.dryRun /\ run.error = ""

\* C1: generateProject with dryRun = true, with the structure creation it
\* calls, creates no directory and writes no file, whatever the config and
\* the filesystem it starts on.
C1_DryRunWritesNothing ==
  (run.op = "generateProject" /\ run.dryRun) => fs = run.pre

\* A dry run of the inline generator that went through addFeatureFiles for a
\* web project with authentication, the templates directory missing.
C1_Witness ==
  /\ run.op = "generateProject" /\ run.dryRun /\ run.impl = "inline"
  /\ run.config.type = "web" /\ run.config.features.authentication
  /\ DEFAULT_TEMPLATES_DIR \notin fs.dirs
  /\ \E i \in 1..Len(run.log) :
       run.log[i].path = join(DEFAULT_TEMPLATES_DIR,
         <<run.config.name, "src", "features", "auth", "index.ts">>)

\* The run logged "Creating file" for the project's file p: the file is one
\* of the files the run planned.
PlannedFile(p) ==
  \E i \in 1..Len(run.log) :
    run.log[i].msg = "Creating file" /\ run.log[i].path = join(ProjectPath, p)

\* The state files a web project can get.
StoreFilePaths ==
  {<<"src", "lib", "store.ts">>, <<"src", "features", "auth", "authSlice.ts">>}
ContextFilePaths == {<<"src", "features", "auth", "authContext.tsx">>}

\* C14 (as claimed): for a web config a store or slice file is planned only
\* when stateManagement = redux and a context file only when
\* stateManagement = context; with none neither is, whatever the features.
C14_StateFileFollowsStateManagement ==
  (run.op = "generateProject" /\ run.config.type = "web")
    => /\ (\E p \in StoreFilePaths : PlannedFile(p))
            => run.config.stateManagement = "redux"
       /\ (\E p \in ContextFilePaths : PlannedFile(p))
            => run.config.stateManagement = "context"

\* The elements of a sequence.
Range(q) == {q[i] : i \in 1..Len(q)}

\* A directory of the data feature (src/features/data and below).
IsDataFeature(d) ==
  Len(d) >= 3 /\ SubSeq(d, 1, 3) = <<"src", "features", "data">>

\* The directory list for config with crudSetup on holds every directory of
\* the list with crudSetup off, and data-feature directories besides.
CrudSetupAddsData(config) ==
  LET with == Range(getProjectDirectories(
                [config EXCEPT !.features.crudSetup = TRUE]))
      without == Range(getProjectDirectories(
                   [config EXCEPT !.features.crudSetup = FALSE]))
  IN /\ without \subseteq with
     /\ \E d \in with \ without : IsDataFeature(d)

\* C15 (as claimed): for every config, crudSetup adds data-feature
\* directories to the directory list and takes none away.
C15_CrudSetupAddsDataDirectories ==
  (run.op = "generateProject" /\ run.impl # "inline")
    => CrudSetupAddsData(run.config)

\* C15 (amended): for every config with type = web, crudSetup adds
\* data-feature directories to the directory list and takes none away.
C15_CrudSetupAddsDataDirectoriesWeb ==
  (run.op = "generateProject" /\ run.impl # "inline"
   /\ run.config.type = "web")
    => CrudSetupAddsData(run.config)

\* A real run for a web config with crudSetup that made the data-feature
\* directories.
C15_Witness ==
  /\ RealRunDone /\ run.impl = "projectGenerator"
  /\ run.config.type = "web" /\ run.config.features.crudSetup
  /\ join(ProjectPath, <<"src", "features", "data", "services">>) \in fs.dirs

\* C16: a generateProject with dryRun = false whose project directory is
\* there already fails with the already-exists error, and creates no
\* directory and writes no file.
C16_ExistingProjectIsRefused ==
  (/\ run.op = "generateProject" /\ ~run.dryRun
   /\ run.impl \in {"projectGenerator", "errorHandler", "inline"}
   /\ existsSync(run.pre, ProjectPath))
    => run.error = "AlreadyExists" /\ fs = run.pre

\* A refused real run: the project directory and the file of the earlier run
\* are still there.
C16_Witness ==
  /\ run.op = "generateProject" /\ ~run.dryRun
  /\ run.impl = "projectGenerator" /\ run.error = "AlreadyExists"
  /\ ProjectPath \in fs.dirs
  /\ IsFile(fs, join(ProjectPath, <<"README.md">>))

\* C13 (as claimed): a generated backend project with apiVersioning has the
\* directory src/routes/v1 and a server entry (src/index.ts) that mounts the
\* routes at /api/v1 and not at /api; without apiVersioning it has no
\* src/routes/v1 and the server entry mounts /api.
C13_ApiVersioningShapesBackend ==
  (RealRunDone /\ run.config.type = "backend")
    => LET v1 == join(ProjectPath, <<"src", "routes", "v1">>)
           entry == FileText(fs, join(ProjectPath, <<"src", "index.ts">>))
       IN IF run.config.backend.apiVersioning
          THEN /\ v1 \in fs.dirs
               /\ Mounts(entry, "/api/v1") /\ ~Mounts(entry, "/api")
          ELSE v1 \notin fs.dirs /\ Mounts(entry, "/api")

\* C2 (as claimed): with authentication on, for every project type, the
\* JWT_SECRET of the planned .env.example differs from that of the planned
\* .env, and .env.example nowhere holds the literal 'supersecretvalue123'.
C2_ExampleEnvHidesSecret ==
  (/\ run.op = "generateProject"
   /\ run.impl \in {"projectGenerator", "errorHandler"}
   /\ run.config.features.authentication)
    => LET files == PlannedFiles(run.impl, run.config)
           real == PlannedText(files, <<".env">>)
           example == PlannedText(files, <<".env.example">>)
       IN /\ JwtSecrets(example) \cap JwtSecrets(real) = {}
          /\ JwtSecrets(example) # {}
          /\ ~HasLiteral(example, "supersecretvalue123")

\* The log entries of the run that stand for one directory or file of the
\* plan: the loops of generateProject log an item before they create it, the
\* single-file generator logs it once it is created or has failed.
ItemEntries ==
  {i \in 1..Len(run.log) :
     run.log[i].msg \in {"Creating directory", "Creating file", "Created",
                         "Failed"}}

\* The item of entry i could not be created: the single-file generator says
\* so, and in generateProject it is the item the error was thrown at.
ItemFailed(i) ==
  \/ run.log[i].msg = "Failed"
  \/ /\ run.log[i].msg \in {"Creating directory", "Creating file"}
     /\ run.error # ""
     /\ \A j \in ItemEntries : j <= i

\* C17 (as claimed): a real run in which the creation of a directory or file
\* fails stops at that item (no later item is visited or created), leaves
\* the items created before it on disk, and ends in the top-level handler
\* with exit code 1.
C17_FailFastWithoutRollback ==
  (/\ run.op = "generateProject" /\ ~run.dryRun
   /\ \E i \in ItemEntries : ItemFailed(i))
    => /\ \E k \in ItemEntries :
            /\ ItemFailed(k)
            /\ \A j \in ItemEntries : j <= k
            /\ \A j \in ItemEntries :
                 j < k => existsSync(fs, run.log[j].path)
       /\ run.fatal
       /\ run.exitCode = 1

\* The output root the user of the run asked for, ~/dev/templates when none
\* was asked for.
RequestedRoot ==
  IF run.outputDir # <<>> THEN run.outputDir ELSE DEFAULT_TEMPLATES_DIR

\* C18 (as claimed): a completed real run puts the project below the output
\* root given with --output-dir or PROJECT_ROOT, and touches ~/dev/templates
\* only when no such root was given.
C18_OutputRootOverrideHonored ==
  (run.op = "generateProject" /\ ~run.dryRun /\ run.error = "")
    => /\ join(RequestedRoot, <<run.config.name>>) \in fs.dirs
       /\ run.outputDir # <<>>
            => {d \in fs.dirs : IsUnder(d, DEFAULT_TEMPLATES_DIR)}
                 = {d \in run.pre.dirs : IsUnder(d, DEFAULT_TEMPLATES_DIR)}

\* The run asked the user whether to overwrite the existing project.
AskedToOverwrite ==
  \E i \in 1..Len(run.log) : run.log[i].msg = "Confirm overwrite"

\* C19 (as claimed): a real run that finds the project directory already
\* there asks the user to confirm, changes the filesystem only when the
\* answer is yes, and does not end in the fatal-error handler.
C19_ExistingDestinationAsksConfirmation ==
  (/\ run.op = "generateProject" /\ ~run.dryRun
   /\ existsSync(run.pre, ProjectPath))
    => /\ AskedToOverwrite
       /\ fs # run.pre => run.overwrite
       /\ ~run.fatal

\* The entries of a log that announce the creation of a directory or file.
ItemLog(log) ==
  SelectSeq(log, LAMBDA e : e.msg \in {"Creating directory", "Creating file"})

\* The entries the plan of a config calls for, in visiting order: its
\* directories, then its files.
PlannedItems(impl, config, projectPath) ==
  LET directories == getProjectDirectories(config)
      files == PlannedFiles(impl, config)
  IN [i \in 1..Len(directories) |->
        [msg |-> "Creating directory",
         path |-> join(projectPath, directories[i])]] \o
     [i \in 1..Len(files) |->
        [msg |-> "Creating file", path |-> join(projectPath, files[i].path)]]

IsPrefix(q, r) == Len(q) <= Len(r) /\ SubSeq(r, 1, Len(q)) = q

\* The real run of the same copy on the same config and filesystem as the
\* dry run in run.
RealRunOfSame == generateProjectWith(run.impl, run.config, FALSE, run.pre)

DryRunOfPlan ==
  /\ run.op = "generateProject" /\ run.dryRun
  /\ run.impl \in {"projectGenerator", "errorHandler"}

\* C20 (as claimed): a dry run logs exactly one creation entry per planned
\* directory and file, in plan order, and the sequence of these entries
\* equals that of the real run on the same config.
C20_DryRunLogEqualsRealRun ==
  DryRunOfPlan
    => /\ ItemLog(run.log) = PlannedItems(run.impl, run.config, ProjectPath)
       /\ ItemLog(run.log) = ItemLog(RealRunOfSame.log)

\* C20 (amended): a dry run logs exactly one creation entry per planned
\* directory and file, in plan order; the real run on the same config logs
\* the same entries in the same order up to the item it stops at, and all
\* of them when it completes.
C20_DryRunLogEqualsCompletedRealRun ==
  DryRunOfPlan
    => /\ ItemLog(run.log) = PlannedItems(run.impl, run.config, ProjectPath)
       /\ IsPrefix(ItemLog(RealRunOfSame.log), ItemLog(run.log))
       /\ RealRunOfSame.error = ""
            => ItemLog(run.log) = ItemLog(RealRunOfSame.log)

\* A dry run of a plan with directories and files whose real run completes.
C20_Witness ==
  /\ DryRunOfPlan
  /\ RealRunOfSame.error = ""
  /\ \E i, j \in 1..Len(run.log) :
       /\ i < j
       /\ run.log[i].msg = "Creating directory"
       /\ run.log[j].msg = "Creating file"

\* ------------------------------------------------- claims on the store
\* C11 (as claimed): ensureBlueprintDir and loadBlueprints never throw, and
\* loadBlueprints returns the empty sequence when the directory or document
\* cannot be created, read or parsed.
C11_EnsureAndLoadNeverThrow ==
  (last.op \in {"ensureBlueprintDir", "loadBlueprints"})
    => /\ ~last.threw
       /\ (/\ last.op = "loadBlueprints"
           /\ \/ ensureBlueprintDirThrows(last.pre)
              \/ ~last.pre.readable
              \/ (last.pre.fileExists /\ ~last.pre.text.valid))
            => last.value = EmptyArray

\* value is a sequence that holds blueprint b.
Holds(value, b) ==
  value.kind = "array" /\ \E i \in 1..Len(value.items) : value.items[i] = b

\* The entries of items whose name is not name, in order.
Others(items, name) == SelectSeq(items, LAMBDA bp : bp.name # name)

NameAbsent(items, name) == \A i \in 1..Len(items) : items[i].name # name

\* The records of an import file that importBlueprints has to accept.
ValidRecords(fileText) ==
  IF fileText.valid /\ fileText.value.kind = "array"
  THEN SelectSeq(fileText.value.items,
                 LAMBDA r : r.kind = "record" /\ r.name # ""
                            /\ r.config # NoConfig /\ r.createdAt # "")
  ELSE <<>>

\* The document holds a sequence of blueprint records and nothing else.
WellFormed(st) ==
  /\ st.fileExists /\ st.text.valid /\ st.text.value.kind = "array"
  /\ \A i \in 1..Len(st.text.value.items) :
       st.text.value.items[i].kind = "record"

\* The document is there, and it cannot be read or does not hold a sequence
\* of blueprint records.
Corrupt(st) ==
  st.dirExists /\ st.fileExists /\ (~st.readable \/ ~WellFormed(st))

\* C12 (as claimed): on a corrupt document the list-blueprints,
\* delete-blueprint and create commands go on as with an empty store: none
\* of them ends in the fatal handler.
C12_CorruptionNeverFatal ==
  (/\ last.op \in {"listBlueprintsCommand", "deleteBlueprintCommand",
                   "createProjectCommand"}
   /\ Corrupt(last.pre))
    => ~last.threw

\* C4 (as claimed): after saveBlueprint(b) returns, loadBlueprints() returns a
\* sequence that contains b, whatever the document held before.
C4_SaveThenLoadContains ==
  (last.op = "saveBlueprint" /\ ~last.threw)
    => Holds(loadBlueprints(store).value, last.blueprint)

C6_DeleteRemovesName ==
  (last.op \in {"deleteBlueprint", "deleteBlueprintCommand"} /\ last.ok)
    => LET got == getBlueprintByName(last.name, store)
       IN /\ ~got.threw /\ ~got.ok
          /\ Others(StoreItems(store), last.name)
               = Others(StoreItems(last.pre), last.name)

\* A successful deleteBlueprint of a name two entries held, another name
\* being in the store too.
C6_Witness ==
  /\ last.op = "deleteBlueprint" /\ last.ok
  /\ Len(StoreItems(last.pre)) - Len(StoreItems(store)) >= 2
  /\ Len(StoreItems(store)) >= 1

C8_SecondImportAddsNothing ==
  (last.op = "importBlueprints" /\ last.repeat /\ ~last.overwrite)
    => last.count = 0 /\ store = last.pre

\* A repeated import whose file holds a valid record that is in the store.
C8_Witness ==
  /\ last.op = "importBlueprints" /\ last.repeat /\ ~last.overwrite
  /\ last.ok
  /\ \E i \in 1..Len(ValidRecords(last.fileText)) :
       Holds(Array(StoreItems(store)), ValidRecords(last.fileText)[i])

\* C9: importBlueprints with overwrite=false leaves every entry the store held
\* before the call in the store, unchanged and at its position.
C9_ImportKeepsExisting ==
  (last.op = "importBlueprints" /\ ~last.overwrite)
    => \A i \in 1..Len(StoreItems(last.pre)) :
         /\ i <= Len(StoreItems(store))
         /\ StoreItems(store)[i] = StoreItems(last.pre)[i]

\* An import with overwrite=false that added a record while the file also
\* held a record of a name the store had, with other content.
C9_Witness ==
  /\ last.op = "importBlueprints" /\ ~last.overwrite /\ last.count >= 1
  /\ \E i \in 1..Len(ValidRecords(last.fileText)),
        j \in 1..Len(StoreItems(last.pre)) :
       /\ ValidRecords(last.fileText)[i].name = StoreItems(last.pre)[j].name
       /\ ValidRecords(last.fileText)[i] # StoreItems(last.pre)[j]

\* C10 (as claimed): on a store of blueprint records, importBlueprints of a
\* file that holds a sequence does not fail, whatever invalid entries the
\* sequence has; every valid record's name is in the store afterwards; and
\* the result counts the records added (overwrite=false) or added and
\* replaced (overwrite=true).
C10_ImportSkipsInvalid ==
  (/\ last.op = "importBlueprints"
   /\ WellFormed(last.pre)
   /\ last.fileText.valid /\ last.fileText.value.kind = "array")
    => /\ last.ok
       /\ \A i \in 1..Len(ValidRecords(last.fileText)) :
            ~NameAbsent(StoreItems(store), ValidRecords(last.fileText)[i].name)
       /\ last.count = IF last.overwrite
                       THEN Len(ValidRecords(last.fileText))
                       ELSE Len(StoreItems(store)) - Len(StoreItems(last.pre))

\* The position of the first record of that name in items (0: none).
FirstIndex(items, name) ==
  IF NameAbsent(items, name) THEN 0
  ELSE CHOOSE i \in 1..Len(items) :
         /\ items[i].name = name
         /\ \A j \in 1..(i - 1) : items[j].name # name

\* after keeps the entries of before at their positions, an entry being
\* allowed to change only into a record of the file with the same name, and
\* the entries it adds stand behind them, with new and distinct names, in the
\* order in which the file first names them.
ImportedInOrder(before, after, records) ==
  /\ Len(after) >= Len(before)
  /\ \A i \in 1..Len(before) :
       \/ after[i] = before[i]
       \/ /\ after[i].name = before[i].name
          /\ \E k \in 1..Len(records) : records[k] = after[i]
  /\ \A i \in (Len(before) + 1)..Len(after) :
       /\ NameAbsent(before, after[i].name)
       /\ FirstIndex(records, after[i].name) > 0
       /\ \A j \in (Len(before) + 1)..(i - 1) :
            FirstIndex(records, after[j].name)
              < FirstIndex(records, after[i].name)

\* C21: every call leaves the surviving entries in the order of their first
\* insertion: saveBlueprint appends at the end, updateBlueprint replaces one
\* entry where it stands, deleteBlueprint removes entries and keeps the order
\* of the rest, and importBlueprints replaces in place and appends at the
\* end in file order.
C21_InsertionOrderIsPreserved ==
  LET before == StoreItems(last.pre)
      after == StoreItems(store)
  IN /\ last.op = "saveBlueprint"
          => after = before \/ after = Append(before, last.blueprint)
     /\ last.op = "updateBlueprint"
          => \/ after = before
             \/ \E i \in 1..Len(before) :
                  after = [before EXCEPT ![i] = last.blueprint]
     /\ last.op \in {"deleteBlueprint", "deleteBlueprintCommand"}
          => after = before \/ after = Others(before, last.name)
     /\ last.op = "importBlueprints"
          => ImportedInOrder(before, after, ValidRecords(last.fileText))

\* An import that replaced the first of two entries where it stood and put a
\* new one behind them.
C21_Witness ==
  /\ last.op = "importBlueprints" /\ last.ok
  /\ Len(StoreItems(last.pre)) = 2
  /\ Len(StoreItems(store)) = 3
  /\ StoreItems(store)[1] # StoreItems(last.pre)[1]
  /\ StoreItems(store)[2] = StoreItems(last.pre)[2]

\* No two entries of items have the same name.
UniqueNames(items) ==
  \A i, j \in 1..Len(items) : i # j => items[i].name # items[j].name

\* C22 (as claimed): names stay a unique key.  A call of saveBlueprint (made
\* with a name that validateBlueprintName accepted), updateBlueprint,
\* deleteBlueprint or importBlueprints on a store without two entries of one
\* name leaves a store without two entries of one name.
C22_NamesStayUnique ==
  (/\ last.op \in {"saveBlueprint", "updateBlueprint", "deleteBlueprint",
                   "importBlueprints"}
   /\ UniqueNames(StoreItems(last.pre))
   /\ last.op = "saveBlueprint"
        => validateBlueprintName(last.blueprint.name, StoreItems(last.pre)))
    => UniqueNames(StoreItems(store))

====
